---------------------------- MODULE Spec2Model ----------------------------
(***************************************************************************)
(* Model of frontend/zia/src/App.js: the response content parser           *)
(* (parseMessage, escapeHtml, convertMarkdownTable, formatMessage) and the *)
(* visualization mounter (VisualizationRenderer).                          *)
(*                                                                         *)
(* Strings are sequences of characters; a character is a one-character     *)
(* string, except "BULLET" (U+2022) and "RING" (U+25E6), which stand for   *)
(* the two non-ASCII characters the code tests for.  Markup that the code  *)
(* synthesizes from its own template literals is kept as one token per tag *)
(* ("<th>", "<br>", ...), so that the characters that come from the input  *)
(* can be told from the tags the code wrote around them.                   *)
(***************************************************************************)
EXTENDS Naturals, Integers, Sequences, FiniteSets, TLC

VARIABLES
    text,            \* formatMessage: the lines of its argument (text.split('\n'))
    i,               \* formatMessage: position of the line scan (1-based)
    processedParts,  \* formatMessage: the parts collected so far
    formattedParts,  \* formatMessage: the fragments of step 2
    fpc,             \* formatMessage: "scan" | "done"
    shape,           \* how the input was drawn (records the table inputs' row count)
    plotly,          \* window.Plotly is defined
    comp,            \* per message index: the VisualizationRenderer rendered there
    dom,             \* per message index: the children of the container div
    attempts,        \* every run of the effect body: its timers and its outcome
    prose,           \* per message index: the message whose formatted text is shown
    raw,             \* parseMessage: its argument, as tokens
    parsed,          \* parseMessage: its result, or NotParsed
    user,            \* App: the user state (an email, or NoUser)
    token,           \* App: the token state
    isAuthenticated, \* App: the isAuthenticated state
    chats,           \* App: the chats state
    activeChatId,    \* App: the activeChatId state (NoChat for null)
    loading,         \* App: the loading state
    pending,         \* the query request in flight, with what sendMessage closed over
    localStorage     \* the browser's localStorage, by the keys the code uses

fmtVars == <<text, i, processedParts, formattedParts, fpc, shape>>

mountVars == <<plotly, comp, dom, attempts, prose>>

parseVars == <<raw, parsed>>

appVars == <<user, token, isAuthenticated, chats, activeChatId, loading, pending, localStorage>>

vars == <<fmtVars, mountVars, parseVars, appVars>>

-----------------------------------------------------------------------------
(* Bounds of the model *)

\* longest text (in lines) of the formatter's inputs
MaxLines == 3
\* most data rows of the well-formed tables given to the formatter
MaxRows == 50
\* messages of the displayed transcript that carry a visualization
MaxMessages == 2
\* runs of the effect body (mounts and re-runs) in one behaviour
MaxAttempts == 2
\* longest answer (in tokens) given to parseMessage
MaxTokens == 5

\* how often the line of a class is repeated in a text
MaxCopies == 2
\* most chats in the chat list
MaxChats == 2
\* most messages in a chat
MaxMsgs == 2
\* chat ids at hand (more than can be held at one time)
IdLimit == 3

\* lines of a text of the run inputs
MaxRunLen == 6

-----------------------------------------------------------------------------
(* Program constants *)

\* while (j < lines.length && j < i + 50)
SearchLimit == 50
\* for (let j = 1; j < Math.min(rows.length, 5); j++)
SepSearchLimit == 5
\* nextLine.trim() === '' && j < i + 3
EarlyBlankLimit == 3

-----------------------------------------------------------------------------
(* String helpers (String.prototype.trim, includes, startsWith, split) *)

IsWs(c) == c = " "

RECURSIVE LTrim(_)
LTrim(s) == IF s # <<>> /\ IsWs(Head(s)) THEN LTrim(Tail(s)) ELSE s

RECURSIVE RTrim(_)
RTrim(s) == IF s # <<>> /\ IsWs(s[Len(s)]) THEN RTrim(SubSeq(s, 1, Len(s) - 1)) ELSE s

Trim(s) == RTrim(LTrim(s))

Includes(s, c) == \E k \in 1..Len(s) : s[k] = c

StartsWith(s, p) == Len(s) >= Len(p) /\ SubSeq(s, 1, Len(p)) = p

EndsWith(s, p) == Len(s) >= Len(p) /\ SubSeq(s, Len(s) - Len(p) + 1, Len(s)) = p

\* the concatenation of the sequences of ss (Array.prototype.join(''))
RECURSIVE Flatten(_)
Flatten(ss) ==
    IF ss = <<>> THEN <<>>
    ELSE IF Len(ss) = 1 THEN ss[1]
    ELSE LET h == Len(ss) \div 2
         IN  Flatten(SubSeq(ss, 1, h)) \o Flatten(SubSeq(ss, h + 1, Len(ss)))

\* the number of occurrences of c in s
CountOf(s, c) == Cardinality({k \in 1..Len(s) : s[k] = c})

\* row.split('|'): the pieces between the pipes (always at least one piece)
RECURSIVE SplitPipeFrom(_, _)
SplitPipeFrom(s, acc) ==
    IF s = <<>> THEN <<acc>>
    ELSE IF Head(s) = "|" THEN <<acc>> \o SplitPipeFrom(Tail(s), <<>>)
    ELSE SplitPipeFrom(Tail(s), Append(acc, Head(s)))

SplitPipe(s) == SplitPipeFrom(s, <<>>)

-----------------------------------------------------------------------------
(* escapeHtml *)

\* escapeHtml with '<' missing from its map
EscapeChar_NoLt(c) ==
    CASE c = "&"  -> <<"&", "a", "m", "p", ";">>
      [] c = ">"  -> <<"&", "g", "t", ";">>
      [] c = "\"" -> <<"&", "q", "u", "o", "t", ";">>
      [] c = "'"  -> <<"&", "#", "0", "3", "9", ";">>
      [] OTHER    -> <<c>>

EscapeChar(c) ==
    CASE c = "&"  -> <<"&", "a", "m", "p", ";">>
      [] c = "<"  -> <<"&", "l", "t", ";">>
      [] c = ">"  -> <<"&", "g", "t", ";">>
      [] c = "\"" -> <<"&", "q", "u", "o", "t", ";">>
      [] c = "'"  -> <<"&", "#", "0", "3", "9", ";">>
      [] OTHER    -> <<c>>

RECURSIVE escapeHtml(_)
escapeHtml(s) == IF s = <<>> THEN <<>> ELSE EscapeChar(Head(s)) \o escapeHtml(Tail(s))

-----------------------------------------------------------------------------
(* escaped.replace(/\*\*(.*?)\*\*/g, '<strong>$1</strong>') *)

\* least q >= from with s[q] = s[q+1] = "*", or 0
RECURSIVE FindStars(_, _)
FindStars(s, from) ==
    IF from + 1 > Len(s) THEN 0
    ELSE IF s[from] = "*" /\ s[from + 1] = "*" THEN from
    ELSE FindStars(s, from + 1)

RECURSIVE BoldReplace(_)
BoldReplace(s) ==
    LET p == FindStars(s, 1)
        q == IF p = 0 THEN 0 ELSE FindStars(s, p + 2)
    IN  IF q = 0 THEN s
        ELSE SubSeq(s, 1, p - 1) \o <<"<strong>">> \o SubSeq(s, p + 2, q - 1)
             \o <<"</strong>">> \o BoldReplace(SubSeq(s, q + 2, Len(s)))

\* escapeHtml first, the bold replacement on the escaped text
EscapeThenBold(s) == BoldReplace(escapeHtml(s))

-----------------------------------------------------------------------------
(* convertMarkdownTable *)

NoTable == <<"null">>

\* the pipe test taking a dash for a pipe as well
HasPipe_OrDash(line) == Includes(line, "|") \/ Includes(line, "-")

HasPipe(line) == Includes(line, "|")

\* /^[\s|:-]+$/.test(s)
IsSeparatorText(s) == s # <<>> /\ \A k \in 1..Len(s) : s[k] \in {" ", "|", ":", "-"}

IsBlank(line) == Trim(line) = <<>>

RECURSIVE DropTrailingBlank(_)
DropTrailingBlank(ls) ==
    IF ls # <<>> /\ IsBlank(ls[Len(ls)]) THEN DropTrailingBlank(SubSeq(ls, 1, Len(ls) - 1))
    ELSE ls

RECURSIVE DropLeadingBlank(_)
DropLeadingBlank(ls) ==
    IF ls # <<>> /\ IsBlank(Head(ls)) THEN DropLeadingBlank(Tail(ls)) ELSE ls

\* tableText.trim().split('\n').filter(row => row.trim()), tableText being the
\* lines joined by '\n': the trim removes blank lines at both ends and the
\* white space before the first and after the last remaining line
TableRows(tableLines) ==
    LET core == DropLeadingBlank(DropTrailingBlank(tableLines))
        cut  == [k \in 1..Len(core) |->
                    LET a == IF k = 1 THEN LTrim(core[k]) ELSE core[k]
                    IN  IF k = Len(core) THEN RTrim(a) ELSE a]
    IN  SelectSeq(cut, LAMBDA r : ~IsBlank(r))

\* the separator search of convertMarkdownTable: least j in 2..min(len,5)
\* (1-based) whose row is a separator, or 0
RECURSIVE FindSeparator(_, _)
FindSeparator(rows, j) ==
    LET lim == IF Len(rows) < SepSearchLimit THEN Len(rows) ELSE SepSearchLimit
    IN  IF j > lim THEN 0
        ELSE IF HasPipe(Trim(rows[j])) /\ IsSeparatorText(Trim(rows[j])) THEN j
        ELSE FindSeparator(rows, j + 1)

\* the empty string after a closing pipe kept
parseRow_KeepsLast(row) ==
    LET parts == [k \in 1..Len(SplitPipe(row)) |-> Trim(SplitPipe(row)[k])]
    IN  IF Len(parts) > 0 /\ parts[1] = <<>> /\ StartsWith(Trim(row), <<"|">>)
        THEN Tail(parts) ELSE parts

parseRow(row) ==
    LET parts == [k \in 1..Len(SplitPipe(row)) |-> Trim(SplitPipe(row)[k])]
        p1 == IF Len(parts) > 0 /\ parts[1] = <<>> /\ StartsWith(Trim(row), <<"|">>)
              THEN Tail(parts) ELSE parts
        p2 == IF Len(p1) > 0 /\ p1[Len(p1)] = <<>> /\ EndsWith(Trim(row), <<"|">>)
              THEN SubSeq(p1, 1, Len(p1) - 1) ELSE p1
    IN  p2

\* one cell: escaped, bold applied, wrapped in <th> or <td>
Cell(tag, cell) == <<"<" \o tag \o ">">> \o EscapeThenBold(cell) \o <<"</" \o tag \o ">">>

CellsOf(tag, row) ==
    LET cs == parseRow(row) IN Flatten([k \in 1..Len(cs) |-> Cell(tag, cs[k])])

BodyRow(row) ==
    LET cells == CellsOf("td", row)
    IN  IF cells # <<>> THEN <<"<tr>">> \o cells \o <<"</tr>">> ELSE <<>>

convertMarkdownTable(tableLines) ==
    LET rows == TableRows(tableLines)
    IN  IF Len(rows) < 2 THEN NoTable
        ELSE
        LET separatorIndex == FindSeparator(rows, 2)
            headerRow   == rows[1]
            dataRows    == IF separatorIndex > 0
                           THEN SubSeq(rows, separatorIndex + 1, Len(rows))
                           ELSE Tail(rows)
            headerCells == CellsOf("th", headerRow)
            kept        == SelectSeq(dataRows, LAMBDA r : ~IsBlank(r) /\ HasPipe(r))
            bodyRows    == Flatten([k \in 1..Len(kept) |-> BodyRow(kept[k])])
        IN  IF headerCells = <<>> THEN NoTable
            ELSE <<"<div.table-wrapper>", "<table>", "<thead>", "<tr>">> \o headerCells
                 \o <<"</tr>", "</thead>", "<tbody>">>
                 \o (IF bodyRows # <<>> THEN bodyRows ELSE <<"<tr.nodata>">>)
                 \o <<"</tbody>", "</table>", "</div>">>

-----------------------------------------------------------------------------
(* formatMessage, step 1: the line scan that collects table runs *)

\* a look-ahead at the next line only
SkipBlank_NextLineOnly(lines, k) == k

\* while (k < lines.length && lines[k].trim() === '') k++
RECURSIVE SkipBlank(_, _)
SkipBlank(lines, k) ==
    IF k <= Len(lines) /\ IsBlank(lines[k]) THEN SkipBlank(lines, k + 1) ELSE k

\* the inner while loop: from line j on, with the table lines collected so far
RECURSIVE Collect(_, _, _, _, _)
Collect(lines, start, j, tableLines, foundSeparator) ==
    LET stop(tl, jj) == [tableLines |-> tl, j |-> jj, foundSeparator |-> foundSeparator]
    IN
    IF ~(j <= Len(lines) /\ j < start + SearchLimit) THEN stop(tableLines, j)
    ELSE
    LET nextLine == lines[j] IN
    IF ~foundSeparator /\ HasPipe(nextLine) /\ IsSeparatorText(Trim(nextLine))
    THEN Collect(lines, start, j + 1, Append(tableLines, nextLine), TRUE)
    ELSE IF foundSeparator
    THEN IF HasPipe(nextLine) /\ ~IsBlank(nextLine)
         THEN Collect(lines, start, j + 1, Append(tableLines, nextLine), foundSeparator)
         ELSE IF IsBlank(nextLine)
         THEN LET k == SkipBlank(lines, j + 1)
              IN  IF k <= Len(lines) /\ ~HasPipe(lines[k])
                  THEN stop(Append(tableLines, nextLine), j + 1)
                  ELSE Collect(lines, start, j + 1, Append(tableLines, nextLine),
                               foundSeparator)
         ELSE stop(tableLines, j)
    ELSE IF HasPipe(nextLine) /\ ~IsBlank(nextLine)
         THEN Collect(lines, start, j + 1, Append(tableLines, nextLine), foundSeparator)
         ELSE IF IsBlank(nextLine) /\ j < start + EarlyBlankLimit
         THEN Collect(lines, start, j + 1, tableLines, foundSeparator)
         ELSE stop(tableLines, j)

Abs(n) == IF n < 0 THEN 0 - n ELSE n

\* pipeCounts.every(count => Math.abs(count - firstPipeCount) <= 1)
AllSimilar(tableLines) ==
    \A k \in 1..Len(tableLines) :
        Abs(CountOf(tableLines[k], "|") - CountOf(tableLines[1], "|")) <= 1

\* A part of processedParts.  type and content are the code's fields; from and
\* to record the source lines the part was made of (to is the last one).
TablePart(html, from, to) == [type |-> "table", content |-> html, from |-> from, to |-> to]

LinePart(line, at) == [type |-> "line", content |-> line, from |-> at, to |-> at]

\* the pipe counts not compared
AcceptsTable_AnyCounts(tableLines, foundSeparator, tableHTML) ==
    \/ foundSeparator /\ Len(tableLines) >= 3 /\ tableHTML # NoTable
    \/ /\ ~foundSeparator /\ Len(tableLines) >= 2
       /\ CountOf(tableLines[1], "|") >= 2
       /\ tableHTML # NoTable

\* the pipe counts compared for equality
AcceptsTable_EqualCounts(tableLines, foundSeparator, tableHTML) ==
    \/ foundSeparator /\ Len(tableLines) >= 3 /\ tableHTML # NoTable
    \/ /\ ~foundSeparator /\ Len(tableLines) >= 2
       /\ \A k \in 1..Len(tableLines) :
             CountOf(tableLines[k], "|") = CountOf(tableLines[1], "|")
       /\ CountOf(tableLines[1], "|") >= 2
       /\ tableHTML # NoTable

\* the two tests that accept a collected run as a table, given its HTML
AcceptsTable(tableLines, foundSeparator, tableHTML) ==
    \/ foundSeparator /\ Len(tableLines) >= 3 /\ tableHTML # NoTable
    \/ /\ ~foundSeparator /\ Len(tableLines) >= 2
       /\ AllSimilar(tableLines) /\ CountOf(tableLines[1], "|") >= 2
       /\ tableHTML # NoTable

\* a run that is no table leaving i where it is
PartOfRun_StaysOnReject(lines, at, run, tableHTML) ==
    IF AcceptsTable(run.tableLines, run.foundSeparator, tableHTML)
    THEN [part |-> TablePart(tableHTML, at, run.j - 1), next |-> run.j]
    ELSE [part |-> LinePart(lines[at], at), next |-> at]

\* a run that is no table being passed over as a whole
PartOfRun_SkipsRun(lines, at, run, tableHTML) ==
    IF AcceptsTable(run.tableLines, run.foundSeparator, tableHTML)
    THEN [part |-> TablePart(tableHTML, at, run.j - 1), next |-> run.j]
    ELSE [part |-> LinePart(lines[at], at), next |-> run.j]

\* the part pushed and the next i, given the collected run and its HTML
PartOfRun(lines, at, run, tableHTML) ==
    IF AcceptsTable(run.tableLines, run.foundSeparator, tableHTML)
    THEN [part |-> TablePart(tableHTML, at, run.j - 1), next |-> run.j]
    ELSE [part |-> LinePart(lines[at], at), next |-> at + 1]

TableAttempt(lines, at, run) ==
    PartOfRun(lines, at, run, convertMarkdownTable(run.tableLines))

\* one iteration of while (i < lines.length): the part pushed and the next i
ScanLine(lines, at) ==
    IF ~HasPipe(lines[at])
    THEN [part |-> LinePart(lines[at], at), next |-> at + 1]
    ELSE TableAttempt(lines, at, Collect(lines, at, at + 1, <<lines[at]>>, FALSE))

-----------------------------------------------------------------------------
(* formatMessage, step 2: one fragment list per part *)

Div(class, inner) == <<"<div." \o class \o ">">> \o inner \o <<"</div>">>

\* trimmed.replace(/^#+\s*/g, '').trim()
RECURSIVE StripHashes(_)
StripHashes(s) == IF s # <<>> /\ Head(s) = "#" THEN StripHashes(Tail(s)) ELSE s

\* trimmed.replace(/^RING\s*/, '').trim()
StripRing(s) == IF s # <<>> /\ Head(s) = "RING" THEN Trim(Tail(s)) ELSE Trim(s)

\* the test for indented lines made first
LineClass_IndentedFirst(line) ==
    LET trimmed == Trim(line) IN
    IF StartsWith(trimmed, <<"RING">>)
       \/ (StartsWith(line, <<" ", " ", " ">>) /\ ~StartsWith(trimmed, <<"*">>)
           /\ ~StartsWith(trimmed, <<"BULLET">>)) THEN "indented"
    ELSE IF StartsWith(trimmed, <<"#">>) THEN "header"
    ELSE IF StartsWith(trimmed, <<"BULLET">>) THEN "bullet"
    ELSE IF StartsWith(trimmed, <<"*">>) /\ ~StartsWith(trimmed, <<"*", "*">>) THEN "star"
    ELSE IF trimmed # <<>> THEN "plain"
    ELSE "blank"

\* the class of a single line, by the order of the if statements
LineClass(line) ==
    LET trimmed == Trim(line) IN
    IF StartsWith(trimmed, <<"#">>) THEN "header"
    ELSE IF StartsWith(trimmed, <<"BULLET">>) THEN "bullet"
    ELSE IF StartsWith(trimmed, <<"*">>) /\ ~StartsWith(trimmed, <<"*", "*">>) THEN "star"
    ELSE IF StartsWith(trimmed, <<"RING">>)
            \/ (StartsWith(line, <<" ", " ", " ">>) /\ ~StartsWith(trimmed, <<"*">>)
                /\ ~StartsWith(trimmed, <<"BULLET">>)) THEN "indented"
    ELSE IF trimmed # <<>> THEN "plain"
    ELSE "blank"

\* the fragments pushed for a part of type line (none for an empty header)
FormatLine(line) ==
    LET trimmed == Trim(line)
        class == LineClass(line)
    IN
    CASE class = "header" ->
            LET content == Trim(StripHashes(trimmed))
            IN  IF content # <<>> THEN <<Div("header", EscapeThenBold(content))>> ELSE <<>>
      [] class = "bullet" -> <<Div("bullet-point", EscapeThenBold(Trim(Tail(trimmed))))>>
      [] class = "star" -> <<Div("bullet-point", EscapeThenBold(Trim(Tail(trimmed))))>>
      [] class = "indented" -> <<Div("indented-item", escapeHtml(StripRing(trimmed)))>>
      [] class = "plain" -> <<Div("regular-line", EscapeThenBold(trimmed))>>
      [] OTHER -> << <<"<br>">> >>

\* a break on each side of a table that has a neighbour
FormatPart_BreaksBetweenTables(parts, idx) ==
    LET part == parts[idx] IN
    IF part.type = "table"
    THEN (IF idx > 1 THEN << <<"<br>">> >> ELSE <<>>)
         \o <<part.content>>
         \o (IF idx < Len(parts) THEN << <<"<br>">> >> ELSE <<>>)
    ELSE FormatLine(part.content)

\* the fragments pushed for processedParts[idx]
FormatPart(parts, idx) ==
    LET part == parts[idx] IN
    IF part.type = "table"
    THEN (IF idx > 1 /\ parts[idx - 1].type # "table" THEN << <<"<br>">> >> ELSE <<>>)
         \o <<part.content>>
         \o (IF idx < Len(parts) /\ parts[idx + 1].type # "table"
             THEN << <<"<br>">> >> ELSE <<>>)
    ELSE FormatLine(part.content)

\* the whole for loop of step 2
FormatParts(parts) == Flatten([idx \in 1..Len(parts) |-> FormatPart(parts, idx)])

\* formattedParts.join('')
Joined(frags) == Flatten(frags)
-----------------------------------------------------------------------------
(* parseMessage.  An answer is a sequence of tokens: the lexemes the three *)
(* patterns look for, each as one token, a prose character "x" and a white *)
(* space character " ".  "<div id>" is an opening div tag that carries an  *)
(* id attribute (<div[^>]*id="[^"]*"[^>]*>).                               *)

Null == "null"

\* least k >= from with s[k] = tok, or 0
RECURSIVE IndexFrom(_, _, _)
IndexFrom(s, tok, from) ==
    IF from > Len(s) THEN 0
    ELSE IF s[from] = tok THEN from
    ELSE IndexFrom(s, tok, from + 1)

\* a match is its first and last position; NoMatch when the pattern fails
NoMatch == [from |-> 0, to |-> 0]

\* opener [\s\S]*? closer: the leftmost opener that a closer follows, up to the
\* first closer after it
MatchSpan(s, opener, closer) ==
    IF IndexFrom(s, opener, 1) = 0
       \/ IndexFrom(s, closer, IndexFrom(s, opener, 1) + 1) = 0
    THEN NoMatch
    ELSE [from |-> IndexFrom(s, opener, 1),
          to   |-> IndexFrom(s, closer, IndexFrom(s, opener, 1) + 1)]

\* text.match(/<!DOCTYPE html>[\s\S]*?<\/html>/i)
MatchDoctype(s) == MatchSpan(s, "<!DOCTYPE html>", "</html>")

\* text.match(/<html[\s\S]*?<\/html>/i)
MatchHtml(s) == MatchSpan(s, "<html", "</html>")

\* the rest of the third pattern after the div at position d:
\* [\s\S]*?<script[\s\S]*?Plotly[\s\S]*?<\/script>
ScriptEndAfter(s, d) ==
    IF IndexFrom(s, "<script", d + 1) = 0 THEN 0
    ELSE IF IndexFrom(s, "Plotly", IndexFrom(s, "<script", d + 1) + 1) = 0 THEN 0
    ELSE IndexFrom(s, "</script>",
                   IndexFrom(s, "Plotly", IndexFrom(s, "<script", d + 1) + 1) + 1)

\* the third pattern with the library's name left out of it
MatchDivScript_AnyScript(s) ==
    IF IndexFrom(s, "<div id>", 1) = 0
       \/ IndexFrom(s, "<script", IndexFrom(s, "<div id>", 1) + 1) = 0
       \/ IndexFrom(s, "</script>",
                    IndexFrom(s, "<script", IndexFrom(s, "<div id>", 1) + 1) + 1) = 0
    THEN NoMatch
    ELSE [from |-> IndexFrom(s, "<div id>", 1),
          to   |-> IndexFrom(s, "</script>",
                     IndexFrom(s, "<script", IndexFrom(s, "<div id>", 1) + 1) + 1)]

\* text.match(/<div[^>]*id="[^"]*"[^>]*>[\s\S]*?<script[\s\S]*?Plotly[\s\S]*?<\/script>/i)
MatchDivScript(s) ==
    IF IndexFrom(s, "<div id>", 1) = 0 \/ ScriptEndAfter(s, IndexFrom(s, "<div id>", 1)) = 0
    THEN NoMatch
    ELSE [from |-> IndexFrom(s, "<div id>", 1),
          to   |-> ScriptEndAfter(s, IndexFrom(s, "<div id>", 1))]

\* the three match results with the bare document tried before the full one
FirstMatch_HtmlFirst(s) ==
    IF MatchHtml(s) # NoMatch THEN MatchHtml(s)
    ELSE IF MatchDoctype(s) # NoMatch THEN MatchDoctype(s)
    ELSE MatchDivScript(s)

\* a || b || c on the three match results
FirstMatch(s) ==
    IF MatchDoctype(s) # NoMatch THEN MatchDoctype(s)
    ELSE IF MatchHtml(s) # NoMatch THEN MatchHtml(s)
    ELSE MatchDivScript(s)

\* text.indexOf(sub): the least position where sub occurs in s, or 0
RECURSIVE IndexOfSeq(_, _, _)
IndexOfSeq(s, sub, from) ==
    IF from + Len(sub) - 1 > Len(s) THEN 0
    ELSE IF SubSeq(s, from, from + Len(sub) - 1) = sub THEN from
    ELSE IndexOfSeq(s, sub, from + 1)

\* the two sides joined without dropping an empty one
JoinNonEmpty_KeepEmpty(before, after) == before \o <<"\n">> \o after

\* [textBefore, textAfter].filter(t => t).join('\n')
JoinNonEmpty(before, after) ==
    IF before = <<>> THEN after
    ELSE IF after = <<>> THEN before
    ELSE before \o <<"\n">> \o after

\* the result for a match m: the text around the first occurrence of the matched
\* string, trimmed and joined
Extracted(s, htmlContent, at) ==
    [text |-> JoinNonEmpty(Trim(SubSeq(s, 1, at - 1)),
                           Trim(SubSeq(s, at + Len(htmlContent), Len(s)))),
     html |-> htmlContent,
     hasVisualization |-> TRUE]

ExtractMatch(s, m) ==
    Extracted(s, SubSeq(s, m.from, m.to), IndexOfSeq(s, SubSeq(s, m.from, m.to), 1))

parseMessage(s) ==
    IF s = <<>> THEN [text |-> <<>>, html |-> Null, hasVisualization |-> FALSE]
    ELSE IF FirstMatch(s) # NoMatch THEN ExtractMatch(s, FirstMatch(s))
    ELSE [text |-> s, html |-> Null, hasVisualization |-> FALSE]

-----------------------------------------------------------------------------
(* VisualizationRenderer: the markup and what one run of renderVisualization *)
(* does with it                                                            *)

NoId == <<"no id">>

Digit(d) == <<"0", "1", "2", "3", "4", "5", "6", "7", "8", "9">>[d + 1]

\* the decimal digits of a message index, as the template literal prints it
RECURSIVE Decimal(_)
Decimal(n) == IF n < 10 THEN <<Digit(n)>> ELSE Decimal(n \div 10) \o <<Digit(n % 10)>>

\* the rendered id being the source id alone
UniqueId_NoIndex(originalId, messageIndex) == originalId

\* const uniqueId = `${originalId}-${messageIndex}`
UniqueId(originalId, messageIndex) == originalId \o <<"-">> \o Decimal(messageIndex)

\* new RegExp(`['"\`]${originalId}['"\`]`, 'g') throws a SyntaxError for an id
\* that is no regular expression, such as one with an unclosed parenthesis
RegExpThrows(originalId) == CountOf(originalId, "(") # CountOf(originalId, ")")

\* The scripts of a markup, by what the loop over them tests:
\*   "ext"    script.src is set
\*   "blank"  an inline script without text
\*   "json"   var data = [...]; and var layout = {...}; both valid JSON
\*   "js"     both declared, a literal is JavaScript that evaluates
\*   "bad"    both declared, a literal neither parses nor evaluates by itself
\*   "novars" an inline script without the two declarations
ScriptKinds == {"ext", "blank", "json", "js", "bad", "novars"}

IsInline(kind) == kind \notin {"ext", "blank"}

\* dataMatch && layoutMatch
DeclaresDataAndLayout(kind) == kind \in {"json", "js", "bad"}

\* the two literals of a script that declares both, each by what can be done
\* with it: "json" is valid JSON, "js" is not but evaluates as JavaScript (an
\* unquoted key), "bad" does neither (it names a variable of the script)
Literals(kind) ==
    CASE kind = "json" -> [data |-> "json", layout |-> "json"]
      [] kind = "js" -> [data |-> "json", layout |-> "js"]
      [] kind = "bad" -> [data |-> "bad", layout |-> "json"]

Parse(literal, by, ok) == [literal |-> literal, by |-> by, ok |-> ok]

\* the evaluation tried without JSON.parse before it
ParseLiteral_EvaluatesOnly(literal, form) == <<Parse(literal, "Function", form # "bad")>>

\* try { x = JSON.parse(m[1]) } catch { x = new Function('return ' + m[1])() }:
\* the parsers called for one literal, in order, and whether each returned
ParseLiteral(literal, form) ==
    IF form = "json" THEN <<Parse(literal, "JSON.parse", TRUE)>>
    ELSE <<Parse(literal, "JSON.parse", FALSE), Parse(literal, "Function", form # "bad")>>

\* data, then layout; an evaluation that throws leaves the try block
ParseLiterals(kind) ==
    IF ParseLiteral("data", Literals(kind).data)[Len(ParseLiteral("data", Literals(kind).data))].ok
    THEN ParseLiteral("data", Literals(kind).data)
         \o ParseLiteral("layout", Literals(kind).layout)
    ELSE ParseLiteral("data", Literals(kind).data)

\* JSON.parse, then new Function('return ' + literal)(): whether both literals
\* have got a value
LiteralsParse(kind) ==
    /\ ParseLiterals(kind)[Len(ParseLiterals(kind))].literal = "layout"
    /\ ParseLiterals(kind)[Len(ParseLiterals(kind))].ok

\* a child of the container div
ChartNode(id) == [kind |-> "chart", id |-> id]

ScriptNode == [kind |-> "script", id |-> <<>>]

ErrorNode(msg) == [kind |-> "error", id |-> msg]

HasError(nodes) == \E k \in 1..Len(nodes) : nodes[k].kind = "error"

ChartNodes(nodes) == SelectSeq(nodes, LAMBDA n : n.kind = "chart")

\* what the environment does when called: Plotly.newPlot returns a promise that
\* resolves or rejects, or throws; an appended script runs through or throws
PlotOutcomes == {"resolves", "rejects", "throws"}

RunOutcomes == {"ok", "throws"}

\* one call out of the mounter: window.Plotly.newPlot(id, ...) or the appended
\* script, which names the same id, and the container's children at that time
Call(op, acc) == [op |-> op, id |-> acc.uniqueId, dom |-> acc.dom]

\* the state of one run of renderVisualization while it goes over the scripts
RenderStart(nodes) ==
    [dom |-> nodes, scriptFound |-> FALSE, aborted |-> FALSE, failures |-> {},
     plotCalls |-> 0, scriptRuns |-> 0, rejections |-> 0, uniqueId |-> NoId,
     calls |-> <<>>, parses |-> <<>>]

\* newScript.textContent = scriptContent; containerRef.current.appendChild(newScript)
\* An error thrown by the appended script is reported to the window, not to
\* the caller of appendChild.
ExecuteScript(acc, out) ==
    [acc EXCEPT !.dom = Append(@, ScriptNode),
                !.scriptRuns = @ + 1,
                !.calls = Append(@, Call("script", acc)),
                !.failures = IF out.run = "throws" THEN @ \cup {"script threw"} ELSE @]

\* window.Plotly.newPlot(uniqueId, data, layout).catch(...): a rejection is only
\* logged (later); a throw lands in catch (parseError), which executes the script
CallPlotly(acc, out) ==
    CASE out.plot = "resolves" ->
             [acc EXCEPT !.plotCalls = @ + 1, !.calls = Append(@, Call("newPlot", acc))]
      [] out.plot = "rejects" ->
             [acc EXCEPT !.plotCalls = @ + 1, !.rejections = @ + 1,
                         !.calls = Append(@, Call("newPlot", acc))]
      [] OTHER -> ExecuteScript([acc EXCEPT !.plotCalls = @ + 1,
                                            !.calls = Append(@, Call("newPlot", acc)),
                                            !.failures = @ \cup {"plot threw"}], out)

\* the try block for one inline script with text
DrawScript(acc, kind, out) ==
    IF DeclaresDataAndLayout(kind)
    THEN IF LiteralsParse(kind)
         THEN CallPlotly([acc EXCEPT !.parses = @ \o ParseLiterals(kind)], out)
         ELSE ExecuteScript([acc EXCEPT !.parses = @ \o ParseLiterals(kind),
                                        !.failures = @ \cup {"literal not parsed"}], out)
    ELSE ExecuteScript(acc, out)

\* one call of the forEach callback.  The RegExp is built outside the try
\* block: when it throws, the loop and the async function end there.
ProcessScript(acc, kind, out, originalId) ==
    IF acc.aborted \/ ~IsInline(kind) THEN acc
    ELSE IF RegExpThrows(originalId)
    THEN [acc EXCEPT !.scriptFound = TRUE, !.aborted = TRUE,
                     !.failures = @ \cup {"RegExp threw"}]
    ELSE DrawScript([acc EXCEPT !.scriptFound = TRUE], kind, out)

RECURSIVE ProcessScripts(_, _, _, _)
ProcessScripts(acc, scripts, outs, originalId) ==
    IF scripts = <<>> THEN acc
    ELSE ProcessScripts(ProcessScript(acc, Head(scripts), Head(outs), originalId),
                        Tail(scripts), Tail(outs), originalId)

\* if (!scriptFound) containerRef.current.innerHTML = '<p ...>Error: No script tag ...'
AfterScripts(acc) ==
    IF ~acc.scriptFound /\ ~acc.aborted
    THEN [acc EXCEPT !.dom = <<ErrorNode("No script tag found in visualization HTML")>>,
                     !.failures = @ \cup {"no inline script"}]
    ELSE acc

\* the container without the clearing: the fresh element added to what is there
InsertChart_NoClear(nodes, uniqueId) == Append(nodes, ChartNode(uniqueId))

\* containerRef.current.innerHTML = ''; ... containerRef.current.appendChild(newChartDiv)
InsertChart(nodes, uniqueId) == <<ChartNode(uniqueId)>>

\* the scripts handled before the fresh element is put into the container
RenderBody_DrawsBeforeInsert(nodes, html, messageIndex, outs) ==
    IF html.id = NoId
    THEN [RenderStart(<<ErrorNode("No chart container found in HTML")>>)
            EXCEPT !.failures = {"no chart div"}]
    ELSE [AfterScripts(ProcessScripts(
            [RenderStart(<<>>) EXCEPT !.uniqueId = UniqueId(html.id, messageIndex)],
            html.scripts, outs, html.id))
            EXCEPT !.dom = InsertChart(nodes, UniqueId(html.id, messageIndex)) \o @]

\* if (bodyContent) { ... }: DOMParser.parseFromString(html, 'text/html') always
\* yields a document with a body, so the branch is always taken
RenderBody(nodes, html, messageIndex, outs) ==
    IF html.id = NoId
    THEN [RenderStart(<<ErrorNode("No chart container found in HTML")>>)
            EXCEPT !.failures = {"no chart div"}]
    ELSE AfterScripts(ProcessScripts(
            [RenderStart(InsertChart(nodes, UniqueId(html.id, messageIndex)))
                EXCEPT !.uniqueId = UniqueId(html.id, messageIndex)],
            html.scripts, outs, html.id))

\* the runtime is missing and nothing is put into the container
PlotlyMissing_Silent(nodes, attached) ==
    [RenderStart(nodes) EXCEPT !.failures = {"no Plotly"}]

\* if (!window.Plotly) { console.error(...); if (containerRef.current) {
\*   containerRef.current.innerHTML = '<p ...>Error: Plotly library failed to load</p>' } return }
PlotlyMissing(nodes, attached) ==
    IF attached
    THEN [RenderStart(<<ErrorNode("Plotly library failed to load")>>)
            EXCEPT !.failures = {"no Plotly"}]
    ELSE [RenderStart(nodes) EXCEPT !.failures = {"no Plotly"}]

\* renderVisualization going on to the draw without the runtime
Render_DrawsWithoutPlotly(nodes, html, messageIndex, plotlyNow, attached, outs) ==
    IF ~attached THEN RenderStart(nodes)
    ELSE RenderBody(nodes, html, messageIndex, outs)

\* renderVisualization after await waitForPlotly(): the new children of the
\* container and what happened.  attached: containerRef.current is not null.
Render(nodes, html, messageIndex, plotlyNow, attached, outs) ==
    IF ~plotlyNow THEN PlotlyMissing(nodes, attached)
    ELSE IF ~attached THEN RenderStart(nodes)
    ELSE RenderBody(nodes, html, messageIndex, outs)

-----------------------------------------------------------------------------
(* The state each part of the program starts in *)

NoShape == [kind |-> "text"]

NoHtml == [id |-> NoId, scripts |-> <<>>]

NotParsed == [text |-> <<>>, html |-> Null, hasVisualization |-> FALSE, pending |-> TRUE]

Slots == 0..(MaxMessages - 1)

\* no message is rendered, no timer is pending, Plotly has not loaded yet
MountIdle ==
    /\ plotly = FALSE
    /\ comp = [s \in Slots |-> [mounted |-> FALSE, html |-> NoHtml, inst |-> 0, effect |-> 0]]
    /\ dom = [s \in Slots |-> <<>>]
    /\ attempts = <<>>
    /\ prose = [s \in Slots |-> NoHtml]

\* formatMessage has not been called
FormatIdle ==
    /\ text = << <<>> >>
    /\ i = 1
    /\ processedParts = <<>>
    /\ formattedParts = <<>>
    /\ fpc = "idle"
    /\ shape = NoShape

\* parseMessage has not been called
ParseIdle ==
    /\ raw = <<>>
    /\ parsed = NotParsed

Users == {"a@x", "b@x"}

NoUser == "no user"

NoToken == "no token"

NoChat == 0


NoRequest == [chatId |-> NoChat, by |-> NoUser]

EmptyStorage ==
    [user |-> NoUser, token |-> NoToken,
     chats |-> [u \in Users |-> [stored |-> FALSE, list |-> <<>>]], active |-> [u \in Users |-> NoChat]]

\* the page has not been loaded
AppIdle ==
    /\ user = NoUser
    /\ token = NoToken
    /\ isAuthenticated = FALSE
    /\ chats = <<>>
    /\ activeChatId = NoChat
    /\ loading = FALSE
    /\ pending = NoRequest
    /\ localStorage = EmptyStorage

-----------------------------------------------------------------------------
(* formatMessage as a state machine: one step per iteration of the line    *)
(* scan, then step 2                                                       *)

\* the argument '' (text.split('\n') of it is one empty line)
EmptyString == << <<>> >>

\* if (!text) return ''
EarlyReturn ==
    /\ fpc = "scan"
    /\ text = EmptyString
    /\ fpc' = "done"
    /\ UNCHANGED <<text, i, processedParts, formattedParts, shape, mountVars, parseVars, appVars>>

\* one iteration of while (i < lines.length)
ScanStep ==
    /\ fpc = "scan"
    /\ text # EmptyString
    /\ i <= Len(text)
    /\ LET r == ScanLine(text, i)
       IN  /\ processedParts' = Append(processedParts, r.part)
           /\ i' = r.next
    /\ UNCHANGED <<text, formattedParts, fpc, shape, mountVars, parseVars, appVars>>

\* the loop has ended: step 2 and the join
FormatStep ==
    /\ fpc = "scan"
    /\ text # EmptyString
    /\ i > Len(text)
    /\ formattedParts' = FormatParts(processedParts)
    /\ fpc' = "done"
    /\ UNCHANGED <<text, i, processedParts, shape, mountVars, parseVars, appVars>>

FormatNext == EarlyReturn \/ ScanStep \/ FormatStep

\* the lines the formatter's inputs are made of
LineSet ==
    { <<"|", "a", "|", "<", "|">>,
      <<"|", "-", "|", "-", "|">>,
      <<"&", "|", "*", "*", "b", "*", "*">>,
      <<"|">>,
      <<>>,
      <<" ", " ", " ", " ">>,
      <<"#", " ", ">">>,
      <<"*", " ", "\"">>,
      <<"BULLET", "'">>,
      <<"RING", "<">>,
      <<" ", " ", " ", "&", "a">>,
      <<"*", "*", "<", "*", "*", "a">>,
      <<"-">>,
      <<" ", " ", " ", "#", " ", "a">>,
      <<" ", " ", " ", "*", "*", "a">>,
      <<"#", " ">> }

Texts == UNION { [1..n -> LineSet] : n \in 1..MaxLines }

FormatInit ==
    /\ text \in Texts
    /\ i = 1
    /\ processedParts = <<>>
    /\ formattedParts = <<>>
    /\ fpc = "scan"
    /\ shape = NoShape
    /\ MountIdle
    /\ ParseIdle
    /\ AppIdle

FormatSpec == FormatInit /\ [][FormatNext]_vars

\* formatMessage is synchronous: once called it runs on, so a behaviour does
\* not stay for ever in a state in which the function has not returned.
\* (One of the three actions is enabled in every state with fpc = "scan":
\* their guards are text = '', i within the lines, i past the lines.)
FormatRuns == []<>(fpc # "scan") \/ []<><<FormatNext>>_vars

FormatLiveSpec == FormatSpec /\ FormatRuns

-----------------------------------------------------------------------------
(* Reading the output back *)

\* the tags formatMessage and convertMarkdownTable write themselves
Markup ==
    { "<div.header>", "<div.bullet-point>", "<div.indented-item>", "<div.regular-line>",
      "</div>", "<br>", "<strong>", "</strong>", "<th>", "</th>", "<td>", "</td>",
      "<tr>", "</tr>", "<tr.nodata>", "<div.table-wrapper>", "<table>", "</table>",
      "<thead>", "</thead>", "<tbody>", "</tbody>" }

MetaChars == {"&", "<", ">", "\"", "'"}

\* the characters of an output between the tags
TextOf(out) == SelectSeq(out, LAMBDA t : t \notin Markup)

\* what an HTML parser makes of one character reference at the head of s
EntityAt(s) ==
    CHOOSE e \in {EscapeChar(c) : c \in MetaChars} \cup {<<>>} :
        /\ StartsWith(s, e)
        /\ e = <<>> => \A c \in MetaChars : ~StartsWith(s, EscapeChar(c))

DecodedChar(e) == CHOOSE c \in MetaChars : EscapeChar(c) = e

\* the text an HTML parser shows for the characters s
RECURSIVE Unescape(_)
Unescape(s) ==
    IF s = <<>> THEN <<>>
    ELSE LET e == EntityAt(s)
         IN  IF e = <<>> THEN <<Head(s)>> \o Unescape(Tail(s))
             ELSE <<DecodedChar(e)>> \o Unescape(SubSeq(s, Len(e) + 1, Len(s)))

SourceChars == Flatten(text)

OutputTokens == Joined(formattedParts)

-----------------------------------------------------------------------------
(* Well-formed tables as inputs: optional prose, a header row, a separator *)
(* row, N data rows, optional prose                                        *)

TableHeaders ==
    { <<"|", " ", "A", " ", "|", " ", "B", " ", "|">>,
      <<"a", "|", "<">>,
      <<"|", "*", "*", "a", "*", "*", "|", "b", "|", "c">> }

TableSeparators ==
    { <<"|", "-", "-", "-", "|", "-", "-", "-", "|">>,
      <<"-", "|", "-">>,
      <<"|", ":", "-", "|", "-", ":", "|">> }

TableDataRows ==
    { <<"|", " ", "1", " ", "|", " ", "2", " ", "|">>,
      <<"&", "|">>,
      <<"|", "-", "|", "-", "|">> }

Prose == <<"a">>

TableInit ==
    /\ \E hd \in TableHeaders, sp \in TableSeparators, row \in TableDataRows,
          n \in 1..MaxRows, before \in {0, 1}, after \in {0, 1} :
          /\ text = (IF before = 1 THEN <<Prose>> ELSE <<>>) \o <<hd, sp>>
                    \o [k \in 1..n |-> row]
                    \o (IF after = 1 THEN <<Prose>> ELSE <<>>)
          /\ shape = [kind |-> "table", header |-> hd, rows |-> n]
    /\ i = 1
    /\ processedParts = <<>>
    /\ formattedParts = <<>>
    /\ fpc = "scan"
    /\ MountIdle
    /\ ParseIdle
    /\ AppIdle

TableNext == ScanStep \/ FormatStep

TableSpec == TableInit /\ [][TableNext]_vars

TableParts == SelectSeq(processedParts, LAMBDA p : p.type = "table")

\* the rows of a table fragment's body and the cells of its head
DataRowCount(html) == CountOf(html, "<tr>") - 1

HeaderCellCount(html) == CountOf(html, "<th>")

\* the cells a row has between its pipes, a pipe at either end not counted
PipeDelimitedCells(row) ==
    CountOf(Trim(row), "|") + 1
    - (IF Head(Trim(row)) = "|" THEN 1 ELSE 0)
    - (IF Trim(row)[Len(Trim(row))] = "|" THEN 1 ELSE 0)

RoundTrips ==
    /\ Len(TableParts) = 1
    /\ DataRowCount(TableParts[1].content) = shape.rows
    /\ HeaderCellCount(TableParts[1].content) = PipeDelimitedCells(shape.header)

-----------------------------------------------------------------------------
(* parseMessage as a state machine: one call on an answer *)

AnswerTokens ==
    {"<!DOCTYPE html>", "<html", "</html>", "<div id>", "<script", "Plotly", "</script>",
     "x", " "}

Answers == UNION { [1..n -> AnswerTokens] : n \in 0..MaxTokens }

ParseStep ==
    /\ parsed = NotParsed
    /\ parsed' = parseMessage(raw)
    /\ UNCHANGED <<raw, fmtVars, mountVars, appVars>>

ParseInit ==
    /\ raw \in Answers
    /\ parsed = NotParsed
    /\ FormatIdle
    /\ MountIdle
    /\ AppIdle

ParseNext == ParseStep

ParseSpec == ParseInit /\ [][ParseNext]_vars

-----------------------------------------------------------------------------
(* VisualizationRenderer as a state machine.  The component at message     *)
(* index s is mounted, gets new html, or is unmounted; every run of the    *)
(* effect body is one attempt, with its 100 ms timer, its poll interval    *)
(* and its 5 s timeout.  A timer callback and the promise continuation     *)
(* that it resolves run without interruption, so they are one step.        *)

\* the markups given to the renderer: the id of the first element that has
\* one (or NoId) and the document's scripts
Markups ==
    { [id |-> <<"c">>, scripts |-> <<"ext", "json">>],
      [id |-> <<"c">>, scripts |-> <<"novars">>],
      [id |-> <<"c">>, scripts |-> <<"bad">>],
      [id |-> <<"c">>, scripts |-> <<"ext", "blank">>],
      [id |-> NoId, scripts |-> <<"json">>],
      [id |-> <<"c", "-", "1">>, scripts |-> <<"json", "js">>],
      [id |-> <<"c", "(">>, scripts |-> <<"json">>] }

Outs == [plot : PlotOutcomes, run : RunOutcomes]

\* the effect body drawing at once instead of setting the timer
NewAttempt_DrawsAtOnce(s, inst, h) ==
    [slot |-> s, inst |-> inst, html |-> h, st |-> "done",
     interval |-> FALSE, timeout |-> FALSE, via |-> "immediate", failures |-> {},
     plotCalls |-> 1, scriptRuns |-> 0, rejections |-> 0,
     wrote |-> TRUE, unhandled |-> FALSE, calls |-> <<>>, parses |-> <<>>]

\* the effect body up to setTimeout(..., 100)
NewAttempt(s, inst, h) ==
    [slot |-> s, inst |-> inst, html |-> h, st |-> "timer",
     interval |-> FALSE, timeout |-> FALSE, via |-> "none", failures |-> {},
     plotCalls |-> 0, scriptRuns |-> 0, rejections |-> 0,
     wrote |-> FALSE, unhandled |-> FALSE, calls |-> <<>>, parses |-> <<>>]

\* return () => clearTimeout(timer), for the effect whose attempt is e
Cleanup(atts, e) ==
    IF e > 0 /\ atts[e].st = "timer" THEN [atts EXCEPT ![e].st = "cancelled"] ELSE atts

\* containerRef.current of the attempt's component instance is not null
Attached(a) ==
    comp[attempts[a].slot].mounted /\ comp[attempts[a].slot].inst = attempts[a].inst

\* the effect that scheduled the attempt has been cleaned up
Superseded(a) == comp[attempts[a].slot].effect # a

\* window.Plotly becomes defined (the library's script has loaded)
PlotlyLoads ==
    /\ ~plotly
    /\ plotly' = TRUE
    /\ UNCHANGED <<comp, dom, attempts, prose, fmtVars, parseVars, appVars>>

\* the message at index s is rendered: its text goes through formatMessage and
\* into the document, and <VisualizationRenderer html={h} messageIndex={s} />
\* is mounted with it; the effect body runs after the commit, and after the
\* cleanup of a component unmounted before that is still due
MountViz(s, h) ==
    /\ ~comp[s].mounted
    /\ Len(attempts) < MaxAttempts
    /\ comp' = [comp EXCEPT ![s] = [mounted |-> TRUE, html |-> h, inst |-> @.inst + 1,
                                    effect |-> Len(attempts) + 1]]
    /\ dom' = [dom EXCEPT ![s] = <<>>]
    /\ attempts' = Append(Cleanup(attempts, comp[s].effect),
                           NewAttempt(s, comp[s].inst + 1, h))
    /\ prose' = [prose EXCEPT ![s] = h]
    /\ UNCHANGED <<plotly, fmtVars, parseVars, appVars>>

\* the message at index s is another one now: its text is rendered and the
\* component gets other html: cleanup, then the effect
ChangeHtml(s, h) ==
    /\ comp[s].mounted
    /\ h # comp[s].html
    /\ Len(attempts) < MaxAttempts
    /\ comp' = [comp EXCEPT ![s].html = h, ![s].effect = Len(attempts) + 1]
    /\ attempts' = Append(Cleanup(attempts, comp[s].effect), NewAttempt(s, comp[s].inst, h))
    /\ prose' = [prose EXCEPT ![s] = h]
    /\ UNCHANGED <<plotly, dom, fmtVars, parseVars, appVars>>

\* the message leaves the transcript: the component is unmounted, text and
\* container leave the document and containerRef.current is null.  The
\* effect's cleanup runs with the passive effects, which React may flush in
\* the commit or in a task of its own after it.
UnmountViz(s) ==
    /\ comp[s].mounted
    /\ comp' = [comp EXCEPT ![s].mounted = FALSE]
    /\ dom' = [dom EXCEPT ![s] = <<>>]
    /\ prose' = [prose EXCEPT ![s] = NoHtml]
    /\ UNCHANGED <<plotly, attempts, fmtVars, parseVars, appVars>>

\* return () => clearTimeout(timer) of a component that has been unmounted
UnmountCleanup(s) ==
    /\ ~comp[s].mounted
    /\ comp[s].effect # 0
    /\ comp' = [comp EXCEPT ![s].effect = 0]
    /\ attempts' = Cleanup(attempts, comp[s].effect)
    /\ UNCHANGED <<plotly, dom, prose, fmtVars, parseVars, appVars>>

\* the attempt's record after renderVisualization has run with result r
Finished(att, via, r, attached) ==
    [att EXCEPT !.st = "done", !.via = via, !.failures = r.failures,
                !.plotCalls = r.plotCalls, !.scriptRuns = r.scriptRuns,
                !.rejections = r.rejections, !.unhandled = r.aborted,
                !.wrote = attached, !.calls = r.calls, !.parses = r.parses]

\* await waitForPlotly() resolves and renderVisualization runs to its end
Finish(a, via, atts, r) ==
    /\ attempts' = [atts EXCEPT ![a] = Finished(@, via, r, Attached(a))]
    /\ dom' = IF Attached(a) THEN [dom EXCEPT ![attempts[a].slot] = r.dom] ELSE dom

RenderOf(a, outs) ==
    Render(dom[attempts[a].slot], attempts[a].html, attempts[a].slot, plotly,
           Attached(a), outs)

\* the 100 ms timer's callback without the test of containerRef.current
TimerFire_NoRecheck(a) ==
    /\ attempts[a].st = "timer"
    /\ IF plotly
       THEN \E outs \in [1..Len(attempts[a].html.scripts) -> Outs] :
                Finish(a, "immediate", attempts, RenderOf(a, outs))
       ELSE /\ attempts' = [attempts EXCEPT ![a].st = "waiting", ![a].interval = TRUE,
                                            ![a].timeout = TRUE]
            /\ dom' = dom
    /\ UNCHANGED <<plotly, comp, prose, fmtVars, parseVars, appVars>>

\* the 100 ms timer fires
TimerFire(a) ==
    /\ attempts[a].st = "timer"
    /\ IF ~Attached(a)
       THEN /\ attempts' = [attempts EXCEPT ![a].st = "done", ![a].via = "no container"]
            /\ dom' = dom
       ELSE IF plotly
       THEN \E outs \in [1..Len(attempts[a].html.scripts) -> Outs] :
                Finish(a, "immediate", attempts, RenderOf(a, outs))
       ELSE /\ attempts' = [attempts EXCEPT ![a].st = "waiting", ![a].interval = TRUE,
                                            ![a].timeout = TRUE]
            /\ dom' = dom
    /\ UNCHANGED <<plotly, comp, prose, fmtVars, parseVars, appVars>>

\* the poll interval fires and finds window.Plotly
PollTick(a) ==
    /\ attempts[a].interval
    /\ plotly
    /\ \E outs \in [1..Len(attempts[a].html.scripts) -> Outs] :
          Finish(a, "poll", [attempts EXCEPT ![a].interval = FALSE], RenderOf(a, outs))
    /\ UNCHANGED <<plotly, comp, prose, fmtVars, parseVars, appVars>>

\* the 5 s timeout with a resolve that runs the continuation whenever called
TimeoutFire_RunsAgain(a) ==
    /\ attempts[a].timeout
    /\ \E outs \in [1..Len(attempts[a].html.scripts) -> Outs] :
          Finish(a, "timeout",
                 [attempts EXCEPT ![a].interval = FALSE, ![a].timeout = FALSE],
                 RenderOf(a, outs))
    /\ UNCHANGED <<plotly, comp, prose, fmtVars, parseVars, appVars>>

\* the 5 s timeout fires: clearInterval, resolve (which does nothing when the
\* poll has resolved the promise before)
TimeoutFire(a) ==
    /\ attempts[a].timeout
    /\ IF attempts[a].st = "waiting"
       THEN \E outs \in [1..Len(attempts[a].html.scripts) -> Outs] :
                Finish(a, "timeout",
                       [attempts EXCEPT ![a].interval = FALSE, ![a].timeout = FALSE],
                       RenderOf(a, outs))
       ELSE /\ attempts' = [attempts EXCEPT ![a].interval = FALSE, ![a].timeout = FALSE]
            /\ dom' = dom
    /\ UNCHANGED <<plotly, comp, prose, fmtVars, parseVars, appVars>>

\* a promise returned by Plotly.newPlot rejects: .catch logs the error
PlotRejected(a) ==
    /\ attempts[a].rejections > 0
    /\ attempts' = [attempts EXCEPT ![a].rejections = @ - 1,
                                    ![a].failures = @ \cup {"plot rejected"}]
    /\ UNCHANGED <<plotly, comp, dom, prose, fmtVars, parseVars, appVars>>

MountNext ==
    \/ PlotlyLoads
    \/ \E s \in Slots, h \in Markups : MountViz(s, h)
    \/ \E s \in Slots, h \in Markups : ChangeHtml(s, h)
    \/ \E s \in Slots : UnmountViz(s)
    \/ \E s \in Slots : UnmountCleanup(s)
    \/ \E a \in 1..Len(attempts) : TimerFire(a)
    \/ \E a \in 1..Len(attempts) : PollTick(a)
    \/ \E a \in 1..Len(attempts) : TimeoutFire(a)
    \/ \E a \in 1..Len(attempts) : PlotRejected(a)

MountInit ==
    /\ MountIdle
    /\ FormatIdle
    /\ ParseIdle
    /\ AppIdle

MountSpec == MountInit /\ [][MountNext]_vars

\* a timeout that has been set and not cleared fires: the 100 ms timer of an
\* attempt and its 5 s timeout
TimersFire ==
    \A a \in 1..MaxAttempts :
        /\ WF_vars(a \in 1..Len(attempts) /\ TimerFire(a))
        /\ WF_vars(a \in 1..Len(attempts) /\ TimeoutFire(a))

\* the markups the renderer is given where the timers are followed to their
\* end: those with the plain id and one inline script at most
LiveMarkups ==
    {h \in Markups :
        /\ h.id = <<"c">>
        /\ Cardinality({k \in 1..Len(h.scripts) : IsInline(h.scripts[k])}) <= 1}

MountLiveNext ==
    \/ PlotlyLoads
    \/ \E s \in Slots, h \in LiveMarkups : MountViz(s, h)
    \/ \E s \in Slots, h \in LiveMarkups : ChangeHtml(s, h)
    \/ \E s \in Slots : UnmountViz(s)
    \/ \E s \in Slots : UnmountCleanup(s)
    \/ \E a \in 1..Len(attempts) : TimerFire(a)
    \/ \E a \in 1..Len(attempts) : PollTick(a)
    \/ \E a \in 1..Len(attempts) : TimeoutFire(a)
    \/ \E a \in 1..Len(attempts) : PlotRejected(a)

MountLiveSpec == MountInit /\ [][MountLiveNext]_vars /\ TimersFire

-----------------------------------------------------------------------------
(* Claims *)

EscapedOnce(out) ==
    LET shown == Unescape(TextOf(out))
        onlyLines == \A k \in 1..Len(processedParts) : processedParts[k].type = "line"
    IN  /\ \A k \in 1..Len(out) :
              \/ out[k] \in Markup
              \/ /\ out[k] \notin {"<", ">", "\"", "'"}
                 /\ out[k] = "&" => EntityAt(SubSeq(out, k, Len(out))) # <<>>
        /\ Unescape(shown) = shown
        /\ \A m \in MetaChars :
              IF onlyLines THEN CountOf(shown, m) = CountOf(SourceChars, m)
              ELSE CountOf(shown, m) <= CountOf(SourceChars, m)

\* C1: in the finished output of formatMessage none of the characters & < > " '
\* of the input stands unescaped (every < > " ' outside the tags the code wrote
\* is gone and every & starts one of the five character references), and none is
\* escaped twice: decoding the output's text once gives text that decodes to
\* itself and that has each of the five characters as often as the input has it
\* when every part is a line, and never more often when a table was rendered.
C1_EscapedExactlyOnce == fpc = "done" => EscapedOnce(OutputTokens)

C1_Witness ==
    /\ fpc = "done"
    /\ \E k \in 1..Len(processedParts) : processedParts[k].type = "table"
    /\ \E k \in 1..Len(processedParts) : processedParts[k].type = "line"
    /\ CountOf(Unescape(TextOf(OutputTokens)), "<") >= 2
    /\ CountOf(OutputTokens, "<strong>") >= 1

\* C2: for a well-formed table of N data rows (header row, separator row, N
\* data rows, every row with at least one cell) formatMessage ends with exactly
\* one table part, whose body has N rows and whose head has as many cells as the
\* header row has between its pipes.
C2_TableRoundTrips == fpc = "done" => RoundTrips

\* the same for the tables the column scan can take in one run: the header, the
\* separator and at most SearchLimit - 2 data rows
C2_RoundTripsWithinSearchLimit ==
    fpc = "done" /\ shape.rows <= SearchLimit - 2 => RoundTrips

NoPipeInText == \A k \in 1..Len(text) : ~Includes(text[k], "|")

\* C3: when no line of the text has a pipe character, every part formatMessage
\* collects is a part of one line, and at the end there is one part per line.
C3_NoPipeNoTable ==
    NoPipeInText =>
        /\ \A k \in 1..Len(processedParts) :
              processedParts[k].type = "line" /\ processedParts[k].from = processedParts[k].to
        /\ fpc = "done" /\ text # EmptyString => Len(processedParts) = Len(text)

C3_Witness ==
    /\ fpc = "done"
    /\ NoPipeInText
    /\ Len(processedParts) = 3
    /\ \E k \in 1..Len(text) : IsSeparatorText(text[k])

-----------------------------------------------------------------------------
(* Claims about the visualization renderer *)

Finishes(a) == attempts[a].st # "done" /\ attempts'[a].st = "done"

SlotOf(a) == attempts[a].slot

ChartIds(s) == {dom[s][k].id : k \in {k \in 1..Len(dom[s]) : dom[s][k].kind = "chart"}}

\* C4: the chart elements rendered for messages at distinct indices have
\* distinct ids, whatever the source ids are, and every rendered id is the
\* function UniqueId of the source id of a markup mounted at that index and
\* of the index.
C4_RenderedIdsUnique ==
    /\ \A s1, s2 \in Slots : s1 # s2 => ChartIds(s1) \cap ChartIds(s2) = {}
    /\ \A s \in Slots : \A id \in ChartIds(s) :
          \E a \in 1..Len(attempts) :
              /\ attempts[a].slot = s
              /\ attempts[a].st = "done"
              /\ id = UniqueId(attempts[a].html.id, s)

\* charts are on screen at both indices, rendered from the same source id
C4_Witness ==
    /\ ChartIds(0) = {UniqueId(<<"c">>, 0)}
    /\ ChartIds(1) = {UniqueId(<<"c">>, 1)}
    /\ comp[0].html.id = comp[1].html.id

\* C5: an attempt whose effect has been cleaned up (the view was re-rendered
\* with other html, or unmounted) never writes into the mount point
\* afterwards, its waits having been cancelled.
C5_SupersededNeverWrites ==
    [][\A a \in 1..Len(attempts) :
          (Superseded(a) /\ Finishes(a)) =>
              /\ dom' = dom
              /\ ~attempts'[a].wrote]_vars

\* C5, the part the cleanup does keep: an attempt cleaned up during its
\* initial delay never runs, and an attempt whose component instance is gone
\* never writes.
C5_CancelledOrDetachedNeverWrites ==
    [][\A a \in 1..Len(attempts) :
          /\ attempts[a].st = "cancelled" => attempts'[a] = attempts[a]
          /\ (Finishes(a) /\ ~Attached(a)) => dom' = dom]_vars

\* C6: every failure during a mount ends with a visible error message in the
\* message's mount point, and none escapes the mount call.
C6_EveryFailureVisible ==
    [][\A a \in 1..Len(attempts) :
          (Attached(a) /\ attempts'[a].failures # attempts[a].failures) =>
              /\ HasError(dom'[SlotOf(a)])
              /\ ~attempts'[a].unhandled]_vars

\* C6, the failures that are shown: no id-bearing element, no inline script,
\* no charting runtime.
C6_StructuralFailuresVisible ==
    [][\A a \in 1..Len(attempts) :
          (Attached(a) /\ attempts'[a].failures \cap
                {"no chart div", "no inline script", "no Plotly"} # {}
                       /\ attempts[a].failures = {}) =>
              HasError(dom'[SlotOf(a)])]_vars

\* C7: when the wait for the charting runtime ends by its timeout and the
\* runtime is still unavailable, the mount point holds the error message and
\* the mount call ends without an unhandled exception.
C7_TimeoutWithoutPlotlyShowsError ==
    [][\A a \in 1..Len(attempts) :
          (Finishes(a) /\ attempts'[a].via = "timeout" /\ ~plotly /\ Attached(a)) =>
              /\ dom'[SlotOf(a)] = <<ErrorNode("Plotly library failed to load")>>
              /\ ~attempts'[a].unhandled
              /\ attempts'[a].plotCalls = 0 /\ attempts'[a].scriptRuns = 0]_vars

\* an attempt ended by the timeout without the runtime, its message on screen
C7_Witness ==
    \E a \in 1..Len(attempts) :
        /\ attempts[a].st = "done" /\ attempts[a].via = "timeout"
        /\ "no Plotly" \in attempts[a].failures
        /\ attempts[a].wrote
        /\ dom[attempts[a].slot] = <<ErrorNode("Plotly library failed to load")>>

\* C8: the mount point never holds more than one chart element, and after an
\* invocation that writes into it, it holds exactly one unless it holds an
\* error message: the container is cleared before the fresh element goes in.
C8_NeverDuplicatesCharts ==
    [][/\ \A s \in Slots : Len(ChartNodes(dom'[s])) <= 1
       /\ \A a \in 1..Len(attempts) :
             (Finishes(a) /\ attempts'[a].wrote) =>
                 \/ HasError(dom'[SlotOf(a)])
                 \/ Len(ChartNodes(dom'[SlotOf(a)])) = 1]_vars

\* the mounter has run twice for one message index with the same markup and
\* has drawn both times; one chart is on screen
C8_Witness ==
    \E a1, a2 \in 1..Len(attempts) :
        /\ a1 < a2
        /\ attempts[a1].slot = attempts[a2].slot
        /\ attempts[a1].html = attempts[a2].html
        /\ attempts[a1].st = "done" /\ attempts[a1].wrote /\ attempts[a1].plotCalls = 1
        /\ attempts[a2].st = "done" /\ attempts[a2].wrote /\ attempts[a2].plotCalls = 1
        /\ Len(ChartNodes(dom[attempts[a2].slot])) = 1

\* C9: one mount invokes the charting entry point exactly once and executes
\* the script at most once (read for the mounts that end without a failure;
\* with a failure, at most once each).
C9_ChartRenderedExactlyOnce ==
    \A a \in 1..Len(attempts) :
        (attempts[a].st = "done" /\ attempts[a].wrote) =>
            /\ attempts[a].plotCalls <= 1
            /\ attempts[a].scriptRuns <= 1
            /\ attempts[a].failures = {} => attempts[a].plotCalls + attempts[a].scriptRuns = 1

\* C9, what holds: every inline script with text is handled once, by one call
\* of the entry point or one execution (both when the call throws).
InlineCount(scripts) == Cardinality({k \in 1..Len(scripts) : IsInline(scripts[k])})

C9_OncePerInlineScript ==
    \A a \in 1..Len(attempts) :
        (attempts[a].st = "done" /\ attempts[a].wrote) =>
            /\ attempts[a].plotCalls <= InlineCount(attempts[a].html.scripts)
            /\ attempts[a].scriptRuns <= InlineCount(attempts[a].html.scripts)

-----------------------------------------------------------------------------
(* Claims about parseMessage *)

Occurs(s, tok, lo, hi) == \E k \in lo..hi : s[k] = tok

\* none of the three patterns has an occurrence in s
NoPatternMatches(s) ==
    /\ ~\E p, q \in 1..Len(s) : p < q /\ s[p] = "<!DOCTYPE html>" /\ s[q] = "</html>"
    /\ ~\E p, q \in 1..Len(s) : p < q /\ s[p] = "<html" /\ s[q] = "</html>"
    /\ ~\E p, q, r, t \in 1..Len(s) :
          /\ p < q /\ q < r /\ r < t
          /\ s[p] = "<div id>" /\ s[q] = "<script" /\ s[r] = "Plotly" /\ s[t] = "</script>"

\* C10: for a text in which none of the three patterns matches, parseMessage
\* returns the text unchanged, html null and hasVisualization false.
C10_NoMatchLeavesTextUnchanged ==
    (parsed # NotParsed /\ NoPatternMatches(raw)) =>
        parsed = [text |-> raw, html |-> Null, hasVisualization |-> FALSE]

\* a parsed text with a div and a script that does not name the library
C10_Witness ==
    /\ parsed # NotParsed
    /\ NoPatternMatches(raw)
    /\ Occurs(raw, "<div id>", 1, Len(raw))
    /\ Occurs(raw, "<script", 1, Len(raw))
    /\ Occurs(raw, "</script>", 1, Len(raw))
    /\ parsed.text = raw

-----------------------------------------------------------------------------
(* Claims about parseMessage: the extraction *)

\* pattern opener ... closer has an occurrence in s that starts at p and ends at q
SpanOccurs(s, opener, closer, p, q) == p < q /\ s[p] = opener /\ s[q] = closer

\* the third pattern has an occurrence in s that starts at p and ends at t
DivOccurs(s, p, t) ==
    /\ s[p] = "<div id>" /\ s[t] = "</script>"
    /\ \E q, r \in (p + 1)..(t - 1) : q < r /\ s[q] = "<script" /\ s[r] = "Plotly"

\* occurrences <<p, q>> of the pattern that parseMessage gives precedence to
OccurrencesOfFirstPattern(s) ==
    IF \E p, q \in 1..Len(s) : SpanOccurs(s, "<!DOCTYPE html>", "</html>", p, q)
    THEN {pq \in (1..Len(s)) \X (1..Len(s)) :
             SpanOccurs(s, "<!DOCTYPE html>", "</html>", pq[1], pq[2])}
    ELSE IF \E p, q \in 1..Len(s) : SpanOccurs(s, "<html", "</html>", p, q)
    THEN {pq \in (1..Len(s)) \X (1..Len(s)) : SpanOccurs(s, "<html", "</html>", pq[1], pq[2])}
    ELSE {pq \in (1..Len(s)) \X (1..Len(s)) : DivOccurs(s, pq[1], pq[2])}

\* the matched span: the leftmost occurrence, and the shortest one from there
IsMatchedSpan(s, pq) ==
    /\ pq \in OccurrencesOfFirstPattern(s)
    /\ \A o \in OccurrencesOfFirstPattern(s) :
          pq[1] < o[1] \/ (pq[1] = o[1] /\ pq[2] <= o[2])

\* the prose around the span from p to q: both sides trimmed, empty sides
\* dropped, one newline between two sides that remain
ProseAround(s, p, q) ==
    IF Trim(SubSeq(s, 1, p - 1)) = <<>> THEN Trim(SubSeq(s, q + 1, Len(s)))
    ELSE IF Trim(SubSeq(s, q + 1, Len(s))) = <<>> THEN Trim(SubSeq(s, 1, p - 1))
    ELSE Trim(SubSeq(s, 1, p - 1)) \o <<"\n">> \o Trim(SubSeq(s, q + 1, Len(s)))

\* C11: when a pattern matches, html is exactly the matched span and text is
\* the trimmed text before it and the trimmed text after it, joined by one
\* newline with empty parts dropped; text is made of nothing but the characters
\* outside the span.
C11_ExtractsMatchedSpan ==
    (parsed # NotParsed /\ ~NoPatternMatches(raw)) =>
        \E pq \in (1..Len(raw)) \X (1..Len(raw)) :
            /\ IsMatchedSpan(raw, pq)
            /\ parsed.hasVisualization
            /\ parsed.html = SubSeq(raw, pq[1], pq[2])
            /\ parsed.text = ProseAround(raw, pq[1], pq[2])

\* a document between two pieces of prose, with white space to trim
C11_Witness ==
    /\ raw = <<"x", " ", "<html", "</html>", "x">>
    /\ parsed.hasVisualization
    /\ parsed.html = <<"<html", "</html>">>
    /\ parsed.text = <<"x", "\n", "x">>

-----------------------------------------------------------------------------
(* One line class at a time: a line of each class (or a table with the     *)
(* content in its cells), once or several times, as input of formatMessage *)

\* contents, each with what the browser is to be given for it: the content
\* escaped, then every **x** span as emphasis
Contents ==
    { [src |-> <<"a">>, out |-> <<"a">>],
      [src |-> <<"a", "*", "*", "<", "*", "*">>,
       out |-> <<"a", "<strong>", "&", "l", "t", ";", "</strong>">>],
      [src |-> <<"a", "*", "b">>, out |-> <<"a", "*", "b">>],
      [src |-> <<"x", "*", "*", "b", "*", "*", "*">>,
       out |-> <<"x", "<strong>", "b", "</strong>", "*">>],
      [src |-> <<"a", "*", "*", "b">>, out |-> <<"a", "*", "*", "b">>],
      [src |-> <<"\"", "*", "*", "a", "*", "*", "'", "*", "*", "b", "*", "*">>,
       out |-> <<"&", "q", "u", "o", "t", ";", "<strong>", "a", "</strong>",
                 "&", "#", "0", "3", "9", ";", "<strong>", "b", "</strong>">>] }

\* what a line of the class starts with, and the tag formatMessage opens for it
Classes ==
    { [name |-> "header", prefix |-> <<"#", " ">>, tag |-> "<div.header>"],
      [name |-> "bullet", prefix |-> <<"BULLET", " ">>, tag |-> "<div.bullet-point>"],
      [name |-> "star", prefix |-> <<"*", " ">>, tag |-> "<div.bullet-point>"],
      [name |-> "ring", prefix |-> <<"RING", " ">>, tag |-> "<div.indented-item>"],
      [name |-> "spaces", prefix |-> <<" ", " ", " ">>, tag |-> "<div.indented-item>"],
      [name |-> "plain", prefix |-> <<>>, tag |-> "<div.regular-line>"],
      [name |-> "cell", prefix |-> <<"|">>, tag |-> "<td>"] }

\* the text for n lines of class c with content src
ClassText(c, src, n) ==
    IF c.name = "cell"
    THEN << <<"|">> \o src \o <<"|">>, <<"|", "-", "|">> >>
         \o [k \in 1..n |-> <<"|">> \o src \o <<"|">>]
    ELSE [k \in 1..n |-> c.prefix \o src]

ClassInit ==
    /\ \E c \in Classes, content \in Contents, n \in 1..MaxCopies :
          /\ text = ClassText(c, content.src, n)
          /\ shape = [kind |-> "class", class |-> c, out |-> content.out, copies |-> n]
    /\ i = 1
    /\ processedParts = <<>>
    /\ formattedParts = <<>>
    /\ fpc = "scan"
    /\ MountIdle
    /\ ParseIdle
    /\ AppIdle

ClassNext == ScanStep \/ FormatStep

ClassSpec == ClassInit /\ [][ClassNext]_vars

\* the pieces of out between an opening tag and the next closing tag
Enclosed(out, open, close) ==
    { SubSeq(out, k + 1, IndexFrom(out, close, k) - 1) :
        k \in {k \in 1..Len(out) : out[k] = open} }

ClosingTag(c) == IF c.name = "cell" THEN "</td>" ELSE "</div>"

\* every line (or every cell) of the input is shown as the expected markup
ShownEmphasized ==
    /\ CountOf(OutputTokens, shape.class.tag) = shape.copies
    /\ Enclosed(OutputTokens, shape.class.tag, ClosingTag(shape.class)) = {shape.out}
    /\ shape.class.name = "cell" => Enclosed(OutputTokens, "<th>", "</th>") = {shape.out}

\* C12: in every text-bearing line class (header, bullet, star bullet,
\* indented item, plain line) and in every table cell the content is escaped
\* and then each **x** span becomes emphasis markup, single asterisks staying
\* as they are.
C12_EscapedThenEmphasized == fpc = "done" => ShownEmphasized

\* C12 for the classes other than the indented item
C12_EmphasizedOutsideIndentedItems ==
    (fpc = "done" /\ shape.class.tag # "<div.indented-item>") => ShownEmphasized

-----------------------------------------------------------------------------
(* Claims about the line scan of formatMessage *)

\* the parts cover the lines 1 .. upto without gap or overlap, in order
CoversInOrder(parts, upto) ==
    /\ \A k \in 1..Len(parts) : parts[k].from <= parts[k].to
    /\ parts # <<>> => parts[1].from = 1 /\ parts[Len(parts)].to = upto
    /\ parts = <<>> => upto = 0
    /\ \A k \in 2..Len(parts) : parts[k].from = parts[k - 1].to + 1

\* a part is made of its own lines and of nothing else
MadeOfOwnLines(lines, part) ==
    IF part.type = "line"
    THEN part.from = part.to /\ part.content = lines[part.from]
    ELSE part.content = convertMarkdownTable(SubSeq(lines, part.from, part.to))

\* C13: the parts built by formatMessage cover disjoint, strictly increasing
\* line ranges, every line scanned so far belongs to exactly one part (at the
\* end: every line of the text), and each part is made of the lines of its
\* range: no line is emitted twice, skipped or reordered.
C13_PartsPreserveLineOrder ==
    text # EmptyString =>
        /\ CoversInOrder(processedParts, i - 1)
        /\ fpc = "done" => i - 1 = Len(text)
        /\ \A k \in 1..Len(processedParts) : MadeOfOwnLines(text, processedParts[k])

\* a table made of two lines, then a single line
C13_Witness ==
    /\ fpc = "done"
    /\ Len(processedParts) = 2
    /\ processedParts[1].type = "table" /\ processedParts[1].to = 2
    /\ processedParts[2].type = "line" /\ processedParts[2].from = 3

-----------------------------------------------------------------------------
(* Claims about the order of text and chart *)

\* the attempt has written into its mount point or called the charting entry point
HasDrawn(att) == att.wrote \/ att.plotCalls > 0 \/ att.scriptRuns > 0

\* C14: the formatted text of a message is in the document from the step that
\* renders the message, and the chart mount comes strictly later: an attempt
\* that has written into the mount point or called the charting entry point
\* after a step was scheduled before that step, its mount point's message had
\* its text shown before the step (the attempt's own message, unless the
\* attempt has been superseded), and the step that renders a message leaves
\* the mount point empty of charts.
C14_ProseBeforeChart ==
    [][/\ \A a \in 1..Len(attempts') :
             (HasDrawn(attempts'[a]) /\ (a > Len(attempts) \/ ~HasDrawn(attempts[a]))) =>
                 /\ a <= Len(attempts)
                 /\ prose[SlotOf(a)] # NoHtml
                 /\ ~Superseded(a) => prose[SlotOf(a)] = attempts[a].html
       /\ \A s \in Slots :
             (prose'[s] # prose[s] /\ prose[s] = NoHtml) => dom'[s] = <<>>]_vars

\* a chart is on screen under the text of its message
C14_Witness ==
    \E a \in 1..Len(attempts) :
        /\ attempts[a].wrote /\ attempts[a].plotCalls = 1
        /\ prose[attempts[a].slot] = attempts[a].html
        /\ ChartNodes(dom[attempts[a].slot]) # <<>>

-----------------------------------------------------------------------------
(* App: users, chats and localStorage.  The state updates a handler makes  *)
(* are applied in one render, and the effects that follow the render (and  *)
(* the renders those cause) are part of the handler's step.  A chat id is  *)
(* Date.now() at its creation: an id differs from every id made at an      *)
(* earlier time that is still held anywhere; ids made within one step can  *)
(* be equal.  by records who was logged in when a chat or message was made.*)

\* a chat as every place but createNewChat and handleChatSourceChange makes
\* it: chatSource is DEFAULT_CHAT_SOURCE
NewChat(id, by) ==
    [id |-> id, title |-> "New Chat", messages |-> <<>>, by |-> by, chatSource |-> "crm"]

Message(role, by, isError) == [role |-> role, by |-> by, isError |-> isError]

Stored(cs) == [stored |-> TRUE, list |-> cs]

NothingStored == [stored |-> FALSE, list |-> <<>>]

TokenOf(u) == "token of " \o u

IdsIn(cs) == {cs[k].id : k \in 1..Len(cs)}

\* every chat id that is held somewhere
UsedIds ==
    (IdsIn(chats) \cup UNION {IdsIn(localStorage.chats[u].list) : u \in Users}
     \cup {localStorage.active[u] : u \in Users} \cup {activeChatId, pending.chatId})
    \ {NoChat}

\* Date.now() at a later time than every id in used
FreshId(used) == CHOOSE n \in 1..IdLimit : n \notin used /\ \A m \in 1..(n - 1) : m \in used

\* Date.now() once more in the same step: the same millisecond or a later one
NextId(used, same) ==
    IF same \/ \A n \in 1..IdLimit : n \in used \cup {FreshId(used)}
    THEN FreshId(used) ELSE FreshId(used \cup {FreshId(used)})

\* an unused id is left within IdLimit
CanMakeId == \E n \in 1..IdLimit : n \notin UsedIds

\* loadChatsFromStorage for user u, id being Date.now()
Load(ls, u, id) ==
    IF u = NoUser THEN <<NewChat(id, NoUser)>>
    ELSE IF ls.chats[u].stored THEN ls.chats[u].list
    ELSE <<NewChat(id, u)>>

\* chats.find(chat => chat.id === id): its position, or 0
RECURSIVE FindChat(_, _, _)
FindChat(cs, id, k) ==
    IF k > Len(cs) THEN 0 ELSE IF cs[k].id = id THEN k ELSE FindChat(cs, id, k + 1)

\* prev.map(chat => chat.id === id ? {...chat, messages: [...chat.messages, m]} : chat)
AppendTo(cs, id, m) ==
    [k \in 1..Len(cs) |->
        IF cs[k].id = id THEN [cs[k] EXCEPT !.messages = Append(@, m)] ELSE cs[k]]

\* the title updateChatTitle computes: made of the first user message, else
\* of the first assistant message
RECURSIVE FirstWithRole(_, _, _)
FirstWithRole(ms, role, k) ==
    IF k > Len(ms) THEN 0 ELSE IF ms[k].role = role THEN k
    ELSE FirstWithRole(ms, role, k + 1)

TitleFrom(ms) ==
    IF FirstWithRole(ms, "user", 1) > 0 THEN ms[FirstWithRole(ms, "user", 1)].by
    ELSE IF FirstWithRole(ms, "assistant", 1) > 0
    THEN ms[FirstWithRole(ms, "assistant", 1)].by
    ELSE "New Chat"

\* the effect on activeChat?.messages.length: updateChatTitle for the chat
\* with id act when it has messages, which sets the title of a 'New Chat'
Retitle(cs, act) ==
    [k \in 1..Len(cs) |->
        IF cs[k].id = act /\ act # NoChat /\ cs[k].messages # <<>>
           /\ cs[k].title = "New Chat"
        THEN [cs[k] EXCEPT !.title = TitleFrom(cs[k].messages)] ELSE cs[k]]

\* the effect that sets the first chat active when none is
FixActive(u, cs, act) ==
    IF cs # <<>> /\ act = NoChat /\ u # NoUser THEN cs[1].id ELSE act

Saved_SharedKey(ls, u, cs, act) ==
    IF u = NoUser THEN ls
    ELSE [ls EXCEPT !.chats = [v \in Users |-> Stored(cs)],
                    !.active[u] = IF act # NoChat THEN act ELSE @]

\* the two save effects: chats and activeChatId under the user's keys
Saved(ls, u, cs, act) ==
    IF u = NoUser THEN ls
    ELSE [ls EXCEPT !.chats[u] = Stored(cs),
                    !.active[u] = IF act # NoChat THEN act ELSE @]

SetApp(u, tok, auth, cs, act, ld, pd, ls) ==
    /\ user' = u
    /\ token' = tok
    /\ isAuthenticated' = auth
    /\ chats' = cs
    /\ activeChatId' = act
    /\ loading' = ld
    /\ pending' = pd
    /\ localStorage' = ls

\* the state after the render with these values and the effects after it
Settle(u, tok, auth, cs, act, ld, pd, ls) ==
    SetApp(u, tok, auth, Retitle(cs, act), FixActive(u, cs, act), ld, pd,
           Saved(ls, u, Retitle(cs, act), FixActive(u, cs, act)))

\* if (!isAuthenticated || !token) return <Login .../>: the chat view is shown
ChatView == isAuthenticated /\ token # NoToken

\* The render after the user state has been set to u (login) or initialised
\* (page load), with chats1 and act1 the chats and activeChatId of that
\* render, and the effects after it.  The effect on [user] loads the chats
\* again (id2 is its Date.now()) before the save effect writes chats1; the
\* set-first-chat-active effect runs after it, so its setActiveChatId wins.
AfterUserSet(u, tok, auth, chats1, act1, ld, pd, ls, id2) ==
    IF u = NoUser THEN Settle(u, tok, auth, chats1, act1, ld, pd, ls)
    ELSE Settle(u, tok, auth, Load(ls, u, id2),
                IF act1 # NoChat THEN act1
                ELSE IF chats1 # <<>> THEN chats1[1].id ELSE NoChat,
                ld, pd, ls)

\* Login.js handleSubmit on success, then handleLogin(userData, authToken):
\* the token is stored, the user is stored when /auth/me answered (meOk)
LoginWith(u, ls, id1, id2) ==
    AfterUserSet(u, TokenOf(u), TRUE, Load(ls, u, id1), activeChatId,
                 loading, pending, ls, id2)

Login(u, meOk) ==
    /\ ~ChatView
    /\ localStorage.chats[u].stored \/ CanMakeId
    /\ \E same \in BOOLEAN :
          LoginWith(u,
                    [localStorage EXCEPT !.token = TokenOf(u),
                                         !.user = IF meOk THEN u ELSE @],
                    FreshId(UsedIds),
                    NextId(UsedIds, same))
    /\ UNCHANGED <<fmtVars, mountVars, parseVars>>

LoggedOut_KeepsStoredToken(cs, ld, pd) ==
    Settle(NoUser, NoToken, FALSE, cs, NoChat, ld, pd,
           [localStorage EXCEPT !.user = NoUser])

LoggedOut_RemovesChats(cs, ld, pd) ==
    Settle(NoUser, NoToken, FALSE, cs, NoChat, ld, pd,
           [localStorage EXCEPT !.token = NoToken, !.user = NoUser,
                                !.chats = [u \in Users |->
                                             IF u = user THEN NothingStored ELSE @[u]]])

\* handleLogout, with cs what setChats calls after it in the same step make of
\* the fresh chat list
LoggedOut(cs, ld, pd) ==
    Settle(NoUser, NoToken, FALSE, cs, NoChat, ld, pd,
           [localStorage EXCEPT !.token = NoToken, !.user = NoUser])

\* handleLogout from the profile menu
Logout ==
    /\ ChatView
    /\ CanMakeId
    /\ LoggedOut(<<NewChat(FreshId(UsedIds), NoUser)>>, loading, pending)
    /\ UNCHANGED <<fmtVars, mountVars, parseVars>>

\* sendMessage without the test of loading
SendMessage_IgnoresLoading ==
    /\ ChatView
    /\ activeChatId # NoChat
    /\ FindChat(chats, activeChatId, 1) > 0 =>
          Len(chats[FindChat(chats, activeChatId, 1)].messages) + 2 <= MaxMsgs
    /\ Settle(user, token, isAuthenticated,
              AppendTo(chats, activeChatId, Message("user", user, FALSE)), activeChatId,
              TRUE, [chatId |-> activeChatId, by |-> user], localStorage)
    /\ UNCHANGED <<fmtVars, mountVars, parseVars>>

\* sendMessage up to await fetch(...)
SendMessage ==
    /\ ChatView
    /\ ~loading
    /\ activeChatId # NoChat
    /\ FindChat(chats, activeChatId, 1) > 0 =>
          Len(chats[FindChat(chats, activeChatId, 1)].messages) + 2 <= MaxMsgs
    /\ Settle(user, token, isAuthenticated,
              AppendTo(chats, activeChatId, Message("user", user, FALSE)), activeChatId,
              TRUE, [chatId |-> activeChatId, by |-> user], localStorage)
    /\ UNCHANGED <<fmtVars, mountVars, parseVars>>

\* sendMessage after await fetch(...): the answer, parsed, is appended to the
\* chat with the id sendMessage closed over.  (The title update it schedules
\* finds the chat titled since the user message.)
ReplyArrives ==
    /\ pending # NoRequest
    /\ Settle(user, token, isAuthenticated,
              AppendTo(chats, pending.chatId, Message("assistant", pending.by, FALSE)),
              activeChatId, FALSE, NoRequest, localStorage)
    /\ UNCHANGED <<fmtVars, mountVars, parseVars>>

\* sendMessage after await fetch(...): a failed request or a status other
\* than 401: the catch block appends an error message
RequestFails ==
    /\ pending # NoRequest
    /\ Settle(user, token, isAuthenticated,
              AppendTo(chats, pending.chatId, Message("assistant", pending.by, TRUE)),
              activeChatId, FALSE, NoRequest, localStorage)
    /\ UNCHANGED <<fmtVars, mountVars, parseVars>>

\* sendMessage after await fetch(...): status 401: handleLogout(), then the
\* catch block's setChats on the fresh chat list, then setLoading(false)
Reply401 ==
    /\ pending # NoRequest
    /\ CanMakeId
    /\ LoggedOut(AppendTo(<<NewChat(FreshId(UsedIds), NoUser)>>, pending.chatId,
                          Message("assistant", pending.by, TRUE)),
                 FALSE, NoRequest)
    /\ UNCHANGED <<fmtVars, mountVars, parseVars>>

\* activeChat: chats.find(chat => chat.id === activeChatId) || chats[0]
ActiveChatAt ==
    IF FindChat(chats, activeChatId, 1) > 0 THEN FindChat(chats, activeChatId, 1)
    ELSE IF chats # <<>> THEN 1 ELSE 0

\* the new chat has the source of the chat shown
createNewChat ==
    /\ ChatView
    /\ CanMakeId
    /\ Len(chats) < MaxChats
    /\ Settle(user, token, isAuthenticated,
              <<[NewChat(FreshId(UsedIds), user) EXCEPT
                    !.chatSource = IF ActiveChatAt > 0 THEN chats[ActiveChatAt].chatSource
                                   ELSE "crm"]>> \o chats,
              FreshId(UsedIds), loading, pending, localStorage)
    /\ UNCHANGED <<fmtVars, mountVars, parseVars>>

\* a source chosen in the menu that is not the source of the chat shown: a new
\* chat with that source is put first and made active
handleChatSourceChange(newSource) ==
    /\ ChatView
    /\ activeChatId # NoChat
    /\ newSource # (IF ActiveChatAt > 0 THEN chats[ActiveChatAt].chatSource ELSE "crm")
    /\ CanMakeId
    /\ Len(chats) < MaxChats
    /\ Settle(user, token, isAuthenticated,
              <<[NewChat(FreshId(UsedIds), user) EXCEPT !.chatSource = newSource]>>
                 \o chats,
              FreshId(UsedIds), loading, pending, localStorage)
    /\ UNCHANGED <<fmtVars, mountVars, parseVars>>

switchChat(chatId) ==
    /\ ChatView
    /\ chatId \in IdsIn(chats)
    /\ chatId # activeChatId
    /\ Settle(user, token, isAuthenticated, chats, chatId, loading, pending, localStorage)
    /\ UNCHANGED <<fmtVars, mountVars, parseVars>>

\* updatedChats of deleteChat
Without(cs, chatId) == SelectSeq(cs, LAMBDA c : c.id # chatId)

deleteChat(chatId) ==
    /\ ChatView
    /\ (activeChatId = chatId /\ Without(chats, chatId) = <<>>) => CanMakeId
    /\ chatId \in IdsIn(chats)
    /\ IF activeChatId # chatId
       THEN Settle(user, token, isAuthenticated, Without(chats, chatId), activeChatId,
                   loading, pending, localStorage)
       ELSE IF Without(chats, chatId) # <<>>
       THEN Settle(user, token, isAuthenticated, Without(chats, chatId),
                   Without(chats, chatId)[1].id, loading, pending, localStorage)
       ELSE Settle(user, token, isAuthenticated,
                   <<[NewChat(FreshId(UsedIds), user) EXCEPT
                         !.chatSource = chats[ActiveChatAt].chatSource]>>,
                   FreshId(UsedIds), loading, pending, localStorage)
    /\ UNCHANGED <<fmtVars, mountVars, parseVars>>

\* clearChat; its button is disabled when the chat shown has no messages
clearChat ==
    /\ ChatView
    /\ ActiveChatAt > 0
    /\ chats[ActiveChatAt].messages # <<>>
    /\ Settle(user, token, isAuthenticated,
              IF activeChatId = NoChat THEN chats
              ELSE [k \in 1..Len(chats) |->
                       IF chats[k].id = activeChatId
                       THEN [chats[k] EXCEPT !.messages = <<>>] ELSE chats[k]],
              activeChatId, loading, pending, localStorage)
    /\ UNCHANGED <<fmtVars, mountVars, parseVars>>

\* the page is loaded again: the state initialisers read localStorage, the
\* request in flight is gone with the old page
PageReload ==
    /\ \/ localStorage.user # NoUser /\ localStorage.chats[localStorage.user].stored
       \/ CanMakeId
    /\ \E same \in BOOLEAN :
          AfterUserSet(localStorage.user, localStorage.token,
                       localStorage.token # NoToken,
                       Load(localStorage, localStorage.user, FreshId(UsedIds)),
                       IF localStorage.user = NoUser THEN NoChat
                       ELSE localStorage.active[localStorage.user],
                       FALSE, NoRequest, localStorage,
                       NextId(UsedIds, same))
    /\ UNCHANGED <<fmtVars, mountVars, parseVars>>

AppNext ==
    \/ \E u \in Users, meOk \in BOOLEAN : Login(u, meOk)
    \/ Logout
    \/ SendMessage
    \/ ReplyArrives
    \/ RequestFails
    \/ Reply401
    \/ createNewChat
    \/ \E newSource \in {"crm", "mail"} : handleChatSourceChange(newSource)
    \/ \E chatId \in 1..IdLimit : switchChat(chatId)
    \/ \E chatId \in 1..IdLimit : deleteChat(chatId)
    \/ clearChat
    \/ PageReload

\* the page loaded for the first time, nothing in localStorage
AppInit ==
    /\ user = NoUser
    /\ token = NoToken
    /\ isAuthenticated = FALSE
    /\ chats = <<NewChat(1, NoUser)>>
    /\ activeChatId = NoChat
    /\ loading = FALSE
    /\ pending = NoRequest
    /\ localStorage = EmptyStorage
    /\ FormatIdle
    /\ MountIdle
    /\ ParseIdle

AppSpec == AppInit /\ [][AppNext]_vars

\* await fetch(...) ends: the promise is fulfilled or rejected
RequestSettles == WF_vars(ReplyArrives \/ RequestFails \/ Reply401)

AppLiveSpec == AppSpec /\ RequestSettles

-----------------------------------------------------------------------------
\* chat c and everything in it was made while u was logged in
OwnedBy(c, u) ==
    /\ c.by = u
    /\ c.title \in {"New Chat", u}
    /\ \A k \in 1..Len(c.messages) : c.messages[k].by = u

AllOwnedBy(cs, u) == \A k \in 1..Len(cs) : OwnedBy(cs[k], u)

\* a step writes the chats under a user's key only while that user is the
\* one logged in, and what it writes is the chat list in memory
WritesOwnKeyOnly ==
    \A u \in Users :
        localStorage'.chats[u] # localStorage.chats[u] =>
            user' = u /\ localStorage'.chats[u] = Stored(chats')

\* C15: each user has separate chat storage: chats are written only under the
\* key of the user logged in, and the chat list in memory and under each
\* user's key holds only that user's chats and messages (or a fresh empty
\* chat), whatever the order of logout, login and the reply to a query that
\* is still pending.
C15_UsersIsolated ==
    /\ [](\A u \in Users : AllOwnedBy(localStorage.chats[u].list, u))
    /\ [](user \in Users => AllOwnedBy(chats, user))
    /\ [][WritesOwnKeyOnly]_vars

\* B is logged in after A, A's query is still pending and both have chats
\* with messages stored
C15_Witness ==
    /\ user = "b@x"
    /\ pending.by = "a@x"
    /\ \E k \in 1..Len(localStorage.chats["a@x"].list) :
          localStorage.chats["a@x"].list[k].messages # <<>>
    /\ \E k \in 1..Len(chats) : chats[k].messages # <<>>
    /\ localStorage.chats["b@x"] = Stored(chats)

-----------------------------------------------------------------------------
\* what a step does to the chats of user u: when u stops being the user
\* logged in, the list under u's key is the list in memory at that moment;
\* while somebody else or nobody is logged in, it is not changed; when u
\* becomes the user logged in again, the list in memory is the stored one
KeptAcrossSessions(u) ==
    /\ (user = u /\ user' # u) => localStorage'.chats[u] = Stored(chats)
    /\ (user # u /\ user' # u) => localStorage'.chats[u] = localStorage.chats[u]
    /\ (user # u /\ user' = u /\ localStorage.chats[u].stored) =>
          /\ chats' = localStorage.chats[u].list
          /\ localStorage'.chats[u] = localStorage.chats[u]

-----------------------------------------------------------------------------
\* the state handleLogout leaves: nothing of the session in localStorage or
\* in memory, and the login gate returns <Login/>
SessionEnded ==
    /\ localStorage.token = NoToken
    /\ localStorage.user = NoUser
    /\ user = NoUser
    /\ token = NoToken
    /\ ~isAuthenticated
    /\ ~ChatView

\* C17: when a query request is answered with HTTP 401 the user is logged out:
\* token and user are removed from storage, user, token and the authenticated
\* flag are cleared in memory, and the login view is shown instead of the
\* chat view.
C17_LoggedOutOn401 == [][Reply401 => SessionEnded']_vars

\* logged out with no request pending while a stored chat ends with a query
\* that got no answer
C17_Witness ==
    /\ SessionEnded
    /\ pending = NoRequest
    /\ ~loading
    /\ \E k \in 1..Len(localStorage.chats["a@x"].list) :
          /\ Len(localStorage.chats["a@x"].list[k].messages) = 1
          /\ localStorage.chats["a@x"].list[k].messages[1].role = "user"

-----------------------------------------------------------------------------
(* Runs of lines as inputs: every text of up to MaxRunLen lines, each line *)
(* a row with one, two or three pipes, a separator, a blank line or prose; *)
(* the line at position k carries the digit k                              *)

LineKinds == {"row1", "row2", "row3", "sep", "blank", "prose"}

LineOf(kind, k) ==
    CASE kind = "row1"  -> <<Digit(k), "|", "x">>
      [] kind = "row2"  -> <<"|", Digit(k), "|">>
      [] kind = "row3"  -> <<"|", Digit(k), "|", "x", "|">>
      [] kind = "sep"   -> <<"|", "-", "|">>
      [] kind = "blank" -> <<>>
      [] OTHER          -> <<"p", Digit(k)>>

RunInit ==
    /\ \E n \in 1..MaxRunLen : \E kinds \in [1..n -> LineKinds] :
          /\ text = [k \in 1..n |-> LineOf(kinds[k], k)]
          /\ shape = [kind |-> "run", kinds |-> kinds]
    /\ i = 1
    /\ processedParts = <<>>
    /\ formattedParts = <<>>
    /\ fpc = "scan"
    /\ MountIdle
    /\ ParseIdle
    /\ AppIdle

RunNext == EarlyReturn \/ ScanStep \/ FormatStep

RunSpec == RunInit /\ [][RunNext]_vars

\* the run the scan collects from line at, a line with a pipe
RunFrom(at) == Collect(text, at, at + 1, <<text[at]>>, FALSE)

\* the first token of a row's first cell
FirstCellOf(line) == SelectSeq(line, LAMBDA t : t # "|")[1]

\* the first token of the first cell of every body row of a table, in order
BodyFirstCells(html) ==
    LET at == SelectSeq([p \in 1..Len(html) |-> p],
                        LAMBDA p : p + 2 <= Len(html) /\ html[p] = "<tr>"
                                   /\ html[p + 1] = "<td>")
    IN  [k \in 1..Len(at) |-> html[at[k] + 2]]

\* the first token of the first cell of the table's head
HeadFirstCell(html) == html[IndexFrom(html, "<th>", 1) + 1]

\* the line of the run from at on which the scan found the separator
RECURSIVE SeparatorLine(_)
SeparatorLine(k) ==
    IF HasPipe(text[k]) /\ IsSeparatorText(Trim(text[k])) THEN k
    ELSE SeparatorLine(k + 1)

\* the lines from..to that are pipe lines, the line skip left out
PipeLinesBut(from, to, skip) ==
    SelectSeq([k \in 1..(to - from + 1) |-> from + k - 1],
              LAMBDA k : k # skip /\ HasPipe(text[k]) /\ ~IsBlank(text[k]))

\* the table made of the run from line at is built from the whole run
BuiltFromWholeRun(p, run) ==
    /\ p.type = "table"
    /\ HeadFirstCell(p.content) = FirstCellOf(text[p.from])
    /\ BodyFirstCells(p.content) =
          [k \in 1..Len(PipeLinesBut(p.from + 1, run.j - 1, SeparatorLine(p.from + 1))) |->
              FirstCellOf(text[PipeLinesBut(p.from + 1, run.j - 1,
                                            SeparatorLine(p.from + 1))[k]])]

SeparatorRuns ==
    {idx \in 1..Len(processedParts) :
        /\ HasPipe(text[processedParts[idx].from])
        /\ RunFrom(processedParts[idx].from).foundSeparator
        /\ Len(RunFrom(processedParts[idx].from).tableLines) >= 3}

\* C18: when a separator line was found and the collected run has at least 3
\* lines, the table is built from the whole run: the first collected line is
\* the header, the separator line is dropped and every other collected pipe
\* line is a data row, wherever in the run the separator sits.
C18_TableFromWholeRun ==
    \A idx \in SeparatorRuns :
        BuiltFromWholeRun(processedParts[idx], RunFrom(processedParts[idx].from))

\* the same for the runs whose separator is their second line
C18_WholeRunWhenSeparatorSecond ==
    \A idx \in SeparatorRuns :
        SeparatorLine(processedParts[idx].from + 1) = processedParts[idx].from + 1 =>
            BuiltFromWholeRun(processedParts[idx], RunFrom(processedParts[idx].from))

-----------------------------------------------------------------------------
\* the tables made of a run in which the scan found a separator
SeparatorTables ==
    {idx \in 1..Len(processedParts) :
        /\ processedParts[idx].type = "table"
        /\ RunFrom(processedParts[idx].from).foundSeparator}

\* the lines of table part idx after its separator
AfterSeparator(idx) ==
    (SeparatorLine(processedParts[idx].from + 1) + 1)..processedParts[idx].to

\* the first line from k on that is not blank, Len(text) + 1 when none is
RECURSIVE NextNonBlank(_)
NextNonBlank(k) ==
    IF k > Len(text) THEN k ELSE IF IsBlank(text[k]) THEN NextNonBlank(k + 1) ELSE k

\* table part idx took in the blank line k and went on
WentOnOver(idx, k) == IsBlank(text[k]) /\ k < processedParts[idx].to

\* C19: after the separator has been seen, a table run continues over a
\* single blank line only when a later line still contains pipe content, and
\* it terminates at two consecutive blank lines or at the first non-pipe
\* line; lines after the termination point are not consumed by the table.
C19_EndsAtTwoBlankLines ==
    \A idx \in SeparatorTables :
        \A k \in AfterSeparator(idx) :
            /\ WentOnOver(idx, k) => \E m \in (k + 1)..Len(text) : HasPipe(text[m])
            /\ ~(IsBlank(text[k]) /\ k - 1 \in AfterSeparator(idx) /\ IsBlank(text[k - 1]))
            /\ HasPipe(text[k]) \/ IsBlank(text[k])

\* C19 as the code has it: after the separator has been seen, a table run
\* goes on over pipe lines and over blank lines, however many, as long as the
\* next line that is not blank contains a pipe or no such line is left; it
\* takes in no line that is neither, and within the search window it ends
\* only before a line without a pipe, or one blank line into the blank lines
\* before such a line.
C19_EndsBeforeNonPipeLine ==
    \A idx \in SeparatorTables :
        /\ \A k \in AfterSeparator(idx) :
              /\ HasPipe(text[k]) \/ IsBlank(text[k])
              /\ WentOnOver(idx, k) =>
                    (NextNonBlank(k) > Len(text) \/ HasPipe(text[NextNonBlank(k)]))
        /\ (/\ processedParts[idx].to < Len(text)
            /\ processedParts[idx].to + 1 < processedParts[idx].from + SearchLimit) =>
              /\ NextNonBlank(processedParts[idx].to + 1) <= Len(text)
              /\ ~HasPipe(text[NextNonBlank(processedParts[idx].to + 1)])

\* a table that went on over two blank lines to a further row
C19_Witness ==
    /\ fpc = "done"
    /\ shape.kind = "run"
    /\ shape.kinds = <<"row2", "sep", "row2", "blank", "blank", "row2">>
    /\ Len(processedParts) = 1

-----------------------------------------------------------------------------
\* the parts made at a line with a pipe from which the scan collected at
\* least 2 pipe lines and no separator, every line's pipe count within one of
\* the first line's
SimilarRuns ==
    {idx \in 1..Len(processedParts) :
        /\ HasPipe(text[processedParts[idx].from])
        /\ ~RunFrom(processedParts[idx].from).foundSeparator
        /\ Len(RunFrom(processedParts[idx].from).tableLines) >= 2
        /\ \A k \in 1..Len(RunFrom(processedParts[idx].from).tableLines) :
              CountOf(RunFrom(processedParts[idx].from).tableLines[k], "|")
              - CountOf(text[processedParts[idx].from], "|") \in {-1, 0, 1}}

\* part idx is a table made of the whole run collected at its first line
RenderedAsTable(idx) ==
    /\ processedParts[idx].type = "table"
    /\ processedParts[idx].to = RunFrom(processedParts[idx].from).j - 1

\* C20: when no separator line was found but at least 2 pipe lines were
\* collected and every collected line's pipe count is within one of the first
\* line's pipe count, the run is rendered as a table.
C20_SimilarRunIsTable == \A idx \in SimilarRuns : RenderedAsTable(idx)

\* C20 as the code has it: such a run is rendered as a table when its first
\* line has at least 2 pipes, and is no table when it has fewer.
C20_SimilarRunOfTwoPipesIsTable ==
    \A idx \in SimilarRuns :
        RenderedAsTable(idx) <=> CountOf(text[processedParts[idx].from], "|") >= 2

\* two rows of two and three pipes and no separator, made one table
C20_Witness ==
    /\ fpc = "done"
    /\ shape.kind = "run"
    /\ shape.kinds = <<"row2", "row3">>
    /\ SimilarRuns = {1}
    /\ RenderedAsTable(1)

-----------------------------------------------------------------------------
\* the parts made at a line with a pipe from which the scan collected at
\* least 2 pipe lines and no separator, some line's pipe count further than
\* one from the first line's
DissimilarRuns ==
    {idx \in 1..Len(processedParts) :
        /\ HasPipe(text[processedParts[idx].from])
        /\ ~RunFrom(processedParts[idx].from).foundSeparator
        /\ Len(RunFrom(processedParts[idx].from).tableLines) >= 2
        /\ \E k \in 1..Len(RunFrom(processedParts[idx].from).tableLines) :
              CountOf(RunFrom(processedParts[idx].from).tableLines[k], "|")
              - CountOf(text[processedParts[idx].from], "|") \notin {-1, 0, 1}}

\* line k of the text was made a part of its own, of type line
OrdinaryLine(k) ==
    \E idx \in 1..Len(processedParts) :
        /\ processedParts[idx].type = "line"
        /\ processedParts[idx].from = k
        /\ processedParts[idx].to = k
        /\ processedParts[idx].content = text[k]

\* C21: a pipe-bearing block with no valid separator and dissimilar pipe
\* counts is never rendered as a table: each of its lines is formatted as an
\* ordinary line.
C21_AmbiguousBlockAllLines ==
    fpc = "done" =>
        \A idx \in DissimilarRuns :
            \A k \in processedParts[idx].from..(RunFrom(processedParts[idx].from).j - 1) :
                OrdinaryLine(k)

\* C21 as the code has it: such a block is not rendered as one table: its
\* first line is formatted as an ordinary line, and the scan goes on at the
\* line after it, where the rest of the block is tried again; every iteration
\* of the scan moves on by at least one line, so formatMessage returns.
C21_AmbiguousBlockFirstLine ==
    /\ [](\A idx \in DissimilarRuns :
            /\ OrdinaryLine(processedParts[idx].from)
            /\ idx < Len(processedParts) =>
                  processedParts[idx + 1].from = processedParts[idx].from + 1
            /\ fpc = "done" => CountOf(OutputTokens, "<table>") = Len(TableParts))
    /\ [][fpc' = "done" \/ i' > i]_vars

\* a block of one, three and three pipes: the first line an ordinary line,
\* the other two a table
C21_Witness ==
    /\ fpc = "done"
    /\ shape.kind = "run"
    /\ shape.kinds = <<"row1", "row3", "row3">>
    /\ DissimilarRuns = {1}
    /\ processedParts[2].type = "table"

-----------------------------------------------------------------------------
\* the parts of type line whose line is empty or white space only
BlankLineParts ==
    {idx \in 1..Len(processedParts) :
        processedParts[idx].type = "line" /\ IsBlank(processedParts[idx].content)}

\* C22: every blank line (empty or whitespace-only) that is formatted as a
\* single line is rendered as a line break <br> and as nothing else.
C22_BlankLineIsBreak ==
    fpc = "done" =>
        \A idx \in BlankLineParts : FormatPart(processedParts, idx) = << <<"<br>">> >>

\* the same for the blank lines that do not start with three spaces
C22_BlankLineIsBreakUnlessIndented ==
    fpc = "done" =>
        \A idx \in BlankLineParts :
            ~StartsWith(processedParts[idx].content, <<" ", " ", " ">>) =>
                FormatPart(processedParts, idx) = << <<"<br>">> >>

-----------------------------------------------------------------------------
\* the predicates of the line classes, each by itself
Matches(class, line) ==
    CASE class = "header"   -> StartsWith(Trim(line), <<"#">>)
      [] class = "bullet"   -> \/ StartsWith(Trim(line), <<"BULLET">>)
                               \/ /\ StartsWith(Trim(line), <<"*">>)
                                  /\ ~StartsWith(Trim(line), <<"*", "*">>)
      [] class = "indented" -> \/ StartsWith(Trim(line), <<"RING">>)
                               \/ /\ StartsWith(line, <<" ", " ", " ">>)
                                  /\ ~StartsWith(Trim(line), <<"*">>)
                                  /\ ~StartsWith(Trim(line), <<"BULLET">>)
      [] class = "plain"    -> Trim(line) # <<>>
      [] OTHER              -> TRUE

PriorityOrder == <<"header", "bullet", "indented", "plain", "blank">>

\* the tag a fragment of each class begins with
TagOf ==
    [header |-> "<div.header>", bullet |-> "<div.bullet-point>",
     indented |-> "<div.indented-item>", plain |-> "<div.regular-line>", blank |-> "<br>"]

\* the first class in priority order whose predicate the line matches
FirstMatching(line) ==
    PriorityOrder[CHOOSE n \in 1..Len(PriorityOrder) :
                     /\ Matches(PriorityOrder[n], line)
                     /\ \A m \in 1..(n - 1) : ~Matches(PriorityOrder[m], line)]

\* a header line with nothing after its hashes
EmptyHeader(line) == FirstMatching(line) = "header" /\ Trim(StripHashes(Trim(line))) = <<>>

\* the fragments one part is to have: one for a line, none for an empty
\* header; a table has its own and a break on each side that is not a table
FragmentsOf(idx) ==
    IF processedParts[idx].type = "line"
    THEN (IF EmptyHeader(processedParts[idx].content) THEN 0 ELSE 1)
    ELSE 1 + (IF idx > 1 /\ processedParts[idx - 1].type # "table" THEN 1 ELSE 0)
           + (IF idx < Len(processedParts) /\ processedParts[idx + 1].type # "table"
              THEN 1 ELSE 0)

RECURSIVE FragmentsBefore(_)
FragmentsBefore(idx) ==
    IF idx = 1 THEN 0 ELSE FragmentsBefore(idx - 1) + FragmentsOf(idx - 1)

\* C23: every single-line part is classified by the first matching predicate
\* in the fixed priority order header > bullet > indented > plain > blank,
\* after table detection has been tried at that position; exactly one class
\* applies to each line and exactly one fragment (or, for an empty header,
\* none) is emitted for it.
C23_FirstMatchingClass ==
    (fpc = "done" /\ text # EmptyString) =>
        /\ Len(formattedParts) = FragmentsBefore(Len(processedParts) + 1)
        /\ \A idx \in 1..Len(processedParts) :
              (processedParts[idx].type = "line"
               /\ ~EmptyHeader(processedParts[idx].content)) =>
                  formattedParts[FragmentsBefore(idx) + 1][1] =
                      TagOf[FirstMatching(processedParts[idx].content)]
        /\ \A idx \in 1..Len(processedParts) :
              (processedParts[idx].type = "line" /\ HasPipe(processedParts[idx].content)) =>
                  ~AcceptsTable(RunFrom(processedParts[idx].from).tableLines,
                                RunFrom(processedParts[idx].from).foundSeparator,
                                convertMarkdownTable(RunFrom(processedParts[idx].from).tableLines))

\* an indented header line, an empty header and an indented line of two
\* stars: a header, nothing and a plain line
C23_Witness ==
    /\ fpc = "done"
    /\ text = << <<" ", " ", " ", "#", " ", "a">>, <<"#", " ">>,
                 <<" ", " ", " ", "*", "*", "a">> >>
    /\ Len(formattedParts) = 2
    /\ formattedParts[1][1] = "<div.header>"
    /\ formattedParts[2][1] = "<div.regular-line>"

-----------------------------------------------------------------------------
\* a line break belongs before (d = -1) or after (d = 1) table part idx: the
\* part on that side exists and is not a table
BreakDue(idx, d) ==
    /\ idx + d \in 1..Len(processedParts)
    /\ processedParts[idx + d].type # "table"

\* where the fragment of table part idx is in formattedParts
TableFragmentAt(idx) == FragmentsBefore(idx) + 1 + (IF BreakDue(idx, -1) THEN 1 ELSE 0)

\* C24: a line-break separator is inserted before a table part only when the
\* preceding part exists and is not a table, and after it only when the
\* following part exists and is not a table; between two adjacent table
\* parts no line break is inserted.
C24_BreaksAroundTables ==
    fpc = "done" =>
        /\ Len(formattedParts) = FragmentsBefore(Len(processedParts) + 1)
        /\ \A idx \in 1..Len(processedParts) :
              processedParts[idx].type = "table" =>
                 /\ formattedParts[TableFragmentAt(idx)] = processedParts[idx].content
                 /\ BreakDue(idx, -1) => formattedParts[TableFragmentAt(idx) - 1] = <<"<br>">>
                 /\ BreakDue(idx, 1) => formattedParts[TableFragmentAt(idx) + 1] = <<"<br>">>
                 /\ (idx < Len(processedParts) /\ processedParts[idx + 1].type = "table") =>
                       formattedParts[TableFragmentAt(idx) + 1] = processedParts[idx + 1].content

\* prose, a table, a second table right after it, prose
C24_Witness ==
    /\ fpc = "done"
    /\ Len(processedParts) = 4
    /\ processedParts[2].type = "table"
    /\ processedParts[3].type = "table"
    /\ Len(formattedParts) = 6

-----------------------------------------------------------------------------
\* the parts made at a line that is a lone pipe, a header row of no cells,
\* from which the scan collected a separator and at least 3 lines: the block
\* is handed to convertMarkdownTable, which finds zero header cells
ZeroHeaderBlocks ==
    {idx \in 1..Len(processedParts) :
        /\ Trim(text[processedParts[idx].from]) = <<"|">>
        /\ RunFrom(processedParts[idx].from).foundSeparator
        /\ Len(RunFrom(processedParts[idx].from).tableLines) >= 3}

\* line k of the text is within some part
Covered(k) ==
    \E idx \in 1..Len(processedParts) :
        processedParts[idx].from <= k /\ k <= processedParts[idx].to

-----------------------------------------------------------------------------
(* Claims about parseMessage: the order of the three patterns *)

DoctypeOccurs(s) ==
    \E p, q \in 1..Len(s) : SpanOccurs(s, "<!DOCTYPE html>", "</html>", p, q)

HtmlOccurs(s) == \E p, q \in 1..Len(s) : SpanOccurs(s, "<html", "</html>", p, q)

DivScriptOccurs(s) == \E p, t \in 1..Len(s) : DivOccurs(s, p, t)

\* the pattern that the extracted markup is a match of, told by its opener
PatternUsed ==
    IF parsed.html = Null THEN "none"
    ELSE IF Head(parsed.html) = "<!DOCTYPE html>" THEN "doctype"
    ELSE IF Head(parsed.html) = "<html" THEN "html"
    ELSE IF Head(parsed.html) = "<div id>" THEN "div"
    ELSE "other"

\* C26: parseMessage uses the full-document pattern when it matches anywhere
\* in the text, else the bare-document pattern when that matches anywhere,
\* else the div-and-script pattern; a pattern of lower priority is used only
\* when no pattern of higher priority matches anywhere in the text.
C26_FirstPatternWins ==
    parsed # NotParsed =>
        PatternUsed = IF DoctypeOccurs(raw) THEN "doctype"
                      ELSE IF HtmlOccurs(raw) THEN "html"
                      ELSE IF DivScriptOccurs(raw) THEN "div"
                      ELSE "none"

\* a bare document comes first in the text and a full document after it: the
\* full document is extracted
C26_Witness ==
    /\ parsed # NotParsed
    /\ \E p, q, r, t \in 1..Len(raw) :
          /\ q < r
          /\ SpanOccurs(raw, "<html", "</html>", p, q)
          /\ SpanOccurs(raw, "<!DOCTYPE html>", "</html>", r, t)
    /\ PatternUsed = "doctype"
    /\ Occurs(parsed.text, "<html", 1, Len(parsed.text))

-----------------------------------------------------------------------------
(* Claims about the renderer: the wait for the runtime *)

\* the attempt has ended: renderVisualization has run to its end (a chart
\* drawn, a script executed, an error shown, or nothing done), the timer
\* callback has returned without a container, or the timer has been cleared
Terminal(att) == att.st \in {"done", "cancelled"}

\* what the one run of the continuation has left in the attempt's record
OutcomeOf(att) == <<att.st, att.via, att.plotCalls, att.scriptRuns, att.wrote, att.unhandled>>

\* C27: every attempt an effect has started ends (a chart drawn, a script
\* executed, an error shown, or the attempt given up).  With the runtime
\* present when the 100 ms timer fires the wait is over in that step; an
\* attempt that waits has its 5 s timeout pending and is ended at the latest
\* by the step in which that timeout fires; and the continuation after the
\* wait runs once: what it has left is changed neither by the poll nor by the
\* timeout that fires after it.
C27_AttemptEndsOnce ==
    /\ \A a \in 1..MaxAttempts :
          (Len(attempts) >= a) ~> (Len(attempts) >= a /\ Terminal(attempts[a]))
    /\ [](\A a \in 1..Len(attempts) : attempts[a].st = "waiting" => attempts[a].timeout)
    /\ [][\A a \in 1..Len(attempts) :
            /\ (TimerFire(a) /\ plotly) => attempts'[a].st = "done"
            /\ TimeoutFire(a) => attempts'[a].st = "done"
            /\ Terminal(attempts[a]) => OutcomeOf(attempts'[a]) = OutcomeOf(attempts[a])]_vars

\* the poll has ended the wait of an attached attempt, and its timeout has
\* fired after that
C27_Witness ==
    \E a \in 1..Len(attempts) :
        /\ attempts[a].st = "done"
        /\ attempts[a].via = "poll"
        /\ attempts[a].wrote
        /\ ~attempts[a].timeout

-----------------------------------------------------------------------------
(* Claims about the renderer: the runtime missing after the wait *)

\* the attempts whose wait has ended with window.Plotly still undefined
EndedWithoutRuntime ==
    {a \in 1..Len(attempts) :
        attempts[a].st = "done" /\ "no Plotly" \in attempts[a].failures}

DrawAttempted(att) == att.plotCalls > 0 \/ att.scriptRuns > 0

\* C28 as stated: an attempt whose wait has ended by the timeout without the
\* runtime has gone on to the draw (and shows the error only when that draw
\* has failed too).
C28_DrawAttemptedWithoutRuntime ==
    \A a \in EndedWithoutRuntime : DrawAttempted(attempts[a])

\* C28, amended: an attempt whose wait has ended without the runtime has ended
\* by the timeout and has attempted no draw: neither the entry point is called
\* nor a script executed, no chart element is inserted, and the step that ends
\* the wait puts the error message into the mount point when the mount point
\* is still there, and leaves the document alone when it is not.
C28_NoDrawWithoutRuntime ==
    /\ [](\A a \in EndedWithoutRuntime :
             /\ attempts[a].via = "timeout"
             /\ ~DrawAttempted(attempts[a])
             /\ attempts[a].failures = {"no Plotly"})
    /\ [][\A a \in 1..Len(attempts) :
            (Finishes(a) /\ attempts'[a].via = "timeout" /\ ~plotly) =>
                /\ a \in EndedWithoutRuntime'
                /\ dom'[SlotOf(a)] = IF Attached(a)
                                     THEN <<ErrorNode("Plotly library failed to load")>>
                                     ELSE dom[SlotOf(a)]]_vars

\* a markup with a script that could be drawn, its wait ended by the timeout
\* without the runtime: the error is on screen and nothing was drawn
C28_Witness ==
    \E a \in EndedWithoutRuntime :
        /\ attempts[a].html.scripts = <<"ext", "json">>
        /\ attempts[a].wrote
        /\ ~DrawAttempted(attempts[a])
        /\ HasError(dom[attempts[a].slot])
        /\ ChartNodes(dom[attempts[a].slot]) = <<>>

-----------------------------------------------------------------------------
(* Claims about the renderer: the order of the steps of one run *)

\* the scripts executed in calls before the k-th call
ScriptsBefore(calls, k) ==
    Cardinality({j \in 1..(k - 1) : calls[j].op = "script"})

\* C29: at every call of the charting entry point and at every execution of a
\* rewritten script, the mount point has been cleared and the fresh element
\* inserted: its first child is the element with the render-unique id, the id
\* the call is made with is the id of that element, and the other children
\* are the scripts this run has appended before, nothing of an earlier run.
C29_ClearedInsertedThenDrawn ==
    \A a \in 1..Len(attempts) : \A k \in 1..Len(attempts[a].calls) :
        LET c == attempts[a].calls[k]
        IN  /\ c.id = UniqueId(attempts[a].html.id, attempts[a].slot)
            /\ c.dom # <<>>
            /\ Head(c.dom) = ChartNode(c.id)
            /\ Len(c.dom) = 1 + ScriptsBefore(attempts[a].calls, k)
            /\ \A j \in 2..Len(c.dom) : c.dom[j] = ScriptNode

\* a second run in the same container, which held the chart of the first run:
\* the entry point is called with the new id, the new element alone in place
C29_Witness ==
    /\ Len(attempts) = 2
    /\ attempts[1].slot = attempts[2].slot
    /\ attempts[1].inst = attempts[2].inst
    /\ attempts[1].wrote /\ attempts[1].plotCalls > 0
    /\ attempts[2].wrote
    /\ attempts[2].html.id # attempts[1].html.id
    /\ \E k \in 1..Len(attempts[2].calls) : attempts[2].calls[k].op = "newPlot"
    /\ ChartIds(attempts[2].slot) = {UniqueId(attempts[2].html.id, attempts[2].slot)}

-----------------------------------------------------------------------------
(* Claims about the renderer: the draw path *)

\* the attempts whose run has come to the loop over the scripts
RanBody ==
    {a \in 1..Len(attempts) :
        /\ attempts[a].st = "done" /\ attempts[a].wrote
        /\ "no Plotly" \notin attempts[a].failures
        /\ attempts[a].html.id # NoId
        /\ ~attempts[a].unhandled}

InlineKinds(att) == SelectSeq(att.html.scripts, IsInline)

Ops(att) == [k \in 1..Len(att.calls) |-> att.calls[k].op]

Found(kind) == kind \in {"json", "js", "bad"}

Evaluable(kind) == Literals(kind).data # "bad" /\ Literals(kind).layout # "bad"

\* what the chain allows for one inline script
AllowedOps(kind, plotThrew) ==
    IF Found(kind) /\ Evaluable(kind)
    THEN {<<"newPlot">>} \cup (IF plotThrew THEN {<<"newPlot", "script">>} ELSE {})
    ELSE {<<"script">>}

RECURSIVE FollowsChain(_, _, _)
FollowsChain(ops, kinds, plotThrew) ==
    IF kinds = <<>> THEN ops = <<>>
    ELSE \E pre \in AllowedOps(Head(kinds), plotThrew) :
            /\ Len(pre) <= Len(ops)
            /\ SubSeq(ops, 1, Len(pre)) = pre
            /\ FollowsChain(SubSeq(ops, Len(pre) + 1, Len(ops)), Tail(kinds), plotThrew)

\* JSON.parse comes first for every literal, and the evaluation is used for a
\* literal exactly when JSON.parse has just failed on it
JsonFirst(parses) ==
    \A k \in 1..Len(parses) :
        /\ parses[k].by = "Function" =>
              k > 1 /\ parses[k - 1] = Parse(parses[k].literal, "JSON.parse", FALSE)
        /\ (parses[k].by = "JSON.parse" /\ ~parses[k].ok) =>
              k < Len(parses) /\ parses[k + 1].by = "Function"
                              /\ parses[k + 1].literal = parses[k].literal

ParsesOf(parses, literal) ==
    Cardinality({k \in 1..Len(parses) :
                    parses[k].literal = literal /\ parses[k].by = "JSON.parse"})

CountKinds(kinds, P(_)) == Cardinality({k \in 1..Len(kinds) : P(kinds[k])})

DataEvaluable(kind) == Found(kind) /\ Literals(kind).data # "bad"

-----------------------------------------------------------------------------
(* Claims about the renderer: the container missing when the timer fires *)

\* C31: the effect only sets the 100 ms timer; when the timer fires and the
\* container is not there, the attempt ends in that step: the document is
\* left as it is, no poll and no timeout for the runtime is set, nothing is
\* called, and no other attempt is started; the ended attempt stays as it is.
C31_NoContainerEndsAttempt ==
    /\ [][\A a \in 1..Len(attempts) :
            /\ (TimerFire(a) /\ ~Attached(a)) =>
                  /\ attempts'[a].st = "done"
                  /\ dom' = dom
                  /\ ~attempts'[a].interval /\ ~attempts'[a].timeout
                  /\ attempts'[a].calls = <<>>
                  /\ Len(attempts') = Len(attempts)
            /\ attempts[a].via = "no container" => attempts'[a] = attempts[a]
            /\ attempts[a].st = "timer" =>
                  attempts'[a].st = "timer" \/ TimerFire(a) \/ attempts'[a].st = "cancelled"]_vars
    /\ [](\A a \in 1..Len(attempts) :
             attempts[a].st = "timer" => (~attempts[a].wrote /\ attempts[a].calls = <<>>))

\* the timer of an unmounted component has fired before its cleanup has run,
\* with the runtime not loaded
C31_Witness ==
    \E a \in 1..Len(attempts) :
        /\ attempts[a].st = "done"
        /\ attempts[a].via = "no container"
        /\ ~plotly
        /\ ~attempts[a].interval /\ ~attempts[a].timeout
        /\ ~attempts[a].wrote

-----------------------------------------------------------------------------
(* Claims about sendMessage: messages are only appended *)

\* the steps of sendMessage: up to the await, and after it
SendSteps == SendMessage \/ ReplyArrives \/ RequestFails \/ Reply401

IsPrefix(s, t) == Len(s) <= Len(t) /\ SubSeq(t, 1, Len(s)) = s

\* the chat with this id holds, after the step, its messages and m after them
Appended(id, m) ==
    \E k \in 1..Len(chats) : \E j \in 1..Len(chats') :
        /\ chats[k].id = id /\ chats'[j].id = id
        /\ chats'[j].messages = Append(chats[k].messages, m)

\* the chats with another id are there after the step, their messages as before
OthersKept(id) ==
    \A k \in 1..Len(chats) :
        chats[k].id # id =>
            \E j \in 1..Len(chats') :
                chats'[j].id = chats[k].id /\ chats'[j].messages = chats[k].messages

\* C32: the step of sendMessage before the request appends the user message
\* to the chat it was sent in; the step after the request appends one
\* assistant message to that chat (the reply, or an error message when the
\* request has failed); no other chat is changed.
C32_CycleAppendsBoth ==
    [][/\ SendMessage =>
            Appended(activeChatId, Message("user", user, FALSE)) /\ OthersKept(activeChatId)
       /\ ReplyArrives =>
            Appended(pending.chatId, Message("assistant", pending.by, FALSE))
            /\ OthersKept(pending.chatId)
       /\ (RequestFails \/ Reply401) =>
            Appended(pending.chatId, Message("assistant", pending.by, TRUE))
            /\ OthersKept(pending.chatId)]_vars

\* what holds: a step of sendMessage changes no message that is stored, and
\* adds one message at most, at the end of the chat it was sent in; only the
\* step that logs the user out takes the chats from the screen
C32_SendOnlyAppends ==
    [][(SendSteps /\ ~Reply401) =>
          /\ Len(chats') = Len(chats)
          /\ \A k \in 1..Len(chats) :
                /\ chats'[k].id = chats[k].id
                /\ IsPrefix(chats[k].messages, chats'[k].messages)
                /\ Len(chats'[k].messages) <= Len(chats[k].messages) + 1
                /\ chats'[k].messages # chats[k].messages =>
                      chats[k].id = IF SendMessage THEN activeChatId ELSE pending.chatId]_vars

-----------------------------------------------------------------------------
(* Claims about formatMessage: termination *)

LastPart(parts) == parts[Len(parts)]

\* C33: every iteration of the line scan pushes one part made of the lines
\* from i on and sets i to the line after the last of them: past all lines of
\* an accepted table, one line on when the current line is pushed as a line;
\* i never passes the line after the last.  So the scan ends and
\* formatMessage returns.
C33_ScanAdvancesAndEnds ==
    /\ [][ScanStep =>
            /\ i' > i
            /\ i' <= Len(text) + 1
            /\ LastPart(processedParts').from = i
            /\ i' = LastPart(processedParts').to + 1
            /\ LastPart(processedParts').type = "line" => i' = i + 1]_vars
    /\ (fpc = "scan") ~> (fpc = "done")

\* a text formatted to its end, with a table made of more than one line and a
\* line pushed as a line
C33_Witness ==
    /\ fpc = "done"
    /\ \E k \in 1..Len(processedParts) :
          processedParts[k].type = "table" /\ processedParts[k].to > processedParts[k].from
    /\ \E k \in 1..Len(processedParts) : processedParts[k].type = "line"
    /\ i = Len(text) + 1

-----------------------------------------------------------------------------
(* Claims about the renderer: a change of html while an attempt waits *)

\* nothing is pending for the component at s, and the attempt of its current
\* effect has run in its container
Settled(s) ==
    /\ comp[s].mounted
    /\ comp[s].effect # 0
    /\ attempts[comp[s].effect].st = "done" /\ attempts[comp[s].effect].wrote
    /\ \A a \in 1..Len(attempts) :
          attempts[a].slot = s =>
              attempts[a].st \in {"done", "cancelled"} /\ ~attempts[a].interval

\* C34: once nothing is pending for a component, its mount point shows what
\* its latest html and messageIndex give: a chart element has the id made of
\* the latest html's id and the index, also when an attempt for earlier html
\* was waiting for the runtime at the time of the change.
C34_LatestHtmlShown ==
    \A s \in Slots :
        Settled(s) => \A id \in ChartIds(s) : id = UniqueId(comp[s].html.id, s)

-----------------------------------------------------------------------------
(* Claims about sendMessage: the chat the reply goes to *)

AnswerSteps == ReplyArrives \/ RequestFails \/ Reply401

\* the messages of the chat shown as the active one
ShownMessages(cs, act) ==
    IF FindChat(cs, act, 1) > 0 THEN cs[FindChat(cs, act, 1)].messages
    ELSE IF cs # <<>> THEN cs[1].messages ELSE <<>>

\* C35: when the request settles, the chat that was active when the query
\* was sent ends with the assistant message of that query, whatever chat is
\* active by then; a chat that is active by then and is another one keeps
\* its messages.
C35_ReplyToChatOfSending ==
    [][AnswerSteps =>
          /\ \E j \in 1..Len(chats') :
                /\ chats'[j].id = pending.chatId
                /\ chats'[j].messages # <<>>
                /\ LastPart(chats'[j].messages).role = "assistant"
                /\ LastPart(chats'[j].messages).by = pending.by
          /\ activeChatId # pending.chatId =>
                ShownMessages(chats', activeChatId) = ShownMessages(chats, activeChatId)]_vars

\* what holds: a reply or an error message changes no chat but the one with
\* the id sendMessage was called with, and is appended to that chat whenever
\* it is in the list at that time, also after switchChat or createNewChat
C35_ReplyOnlyToChatOfSending ==
    [][(ReplyArrives \/ RequestFails) =>
          /\ OthersKept(pending.chatId)
          /\ pending.chatId \in IdsIn(chats) =>
                Appended(pending.chatId,
                         Message("assistant", pending.by, RequestFails))]_vars

-----------------------------------------------------------------------------
(* Claims about sendMessage: one request at a time *)

\* C36: a request is started only when none is in flight; loading is true
\* exactly while a request is in flight; and every request that is started
\* is followed by loading being false again, whether it is answered, fails or
\* is answered with 401.
C36_OneRequestAtATime ==
    /\ [](loading <=> pending # NoRequest)
    /\ [][/\ SendMessage => (~loading /\ pending = NoRequest /\ loading' /\ pending' # NoRequest)
          /\ AnswerSteps => (loading /\ ~loading' /\ pending' = NoRequest)
          /\ (loading /\ loading') => pending' = pending]_vars
    /\ loading ~> ~loading

\* a request has failed and has set loading back to false: the chat it was
\* sent in ends with the error message and nothing is in flight
C36_Witness ==
    /\ ChatView
    /\ ~loading
    /\ pending = NoRequest
    /\ \E k \in 1..Len(chats) :
          /\ Len(chats[k].messages) = 2
          /\ chats[k].messages[1].role = "user"
          /\ chats[k].messages[2] = Message("assistant", user, TRUE)

-----------------------------------------------------------------------------
(* Claims about the chat list: the active chat *)

\* C37: whenever the chat view is shown, the chat list is not empty and
\* activeChatId is the id of a chat in the list.
C37_ActiveChatInList ==
    ChatView => (chats # <<>> /\ activeChatId \in IdsIn(chats))

\* what holds: once activeChatId is the id of a chat in the list, the chat
\* handlers keep it so: deleting the active chat selects the first chat left,
\* deleting the last chat makes a fresh one
C37_HandlersKeepActiveChat ==
    [][(/\ ChatView /\ activeChatId \in IdsIn(chats)
        /\ \/ createNewChat
           \/ \E newSource \in {"crm", "mail"} : handleChatSourceChange(newSource)
           \/ \E chatId \in 1..IdLimit : switchChat(chatId)
           \/ \E chatId \in 1..IdLimit : deleteChat(chatId)
           \/ clearChat) =>
          (chats' # <<>> /\ activeChatId' \in IdsIn(chats'))]_vars

=============================================================================
